---- MODULE Spec2Model ----
(***************************************************************************)
(* Bit-field codec (BitSetToInteger.h) and safe shifts (Shift.h) of        *)
(* MARTe2.                                                                 *)
(*                                                                         *)
(* An integer of w bits is a tuple of w bits, least significant bit first: *)
(* bit i of the C++ value is x[i+1].  Memory is a tuple of bytes (0..255); *)
(* the target is little-endian, so byte a of an integer holds its bits     *)
(* 8a .. 8a+7.  A signed type holds two's complement; gcc's documented     *)
(* behaviour is used for the signed shifts (>> sign-extends, << shifts the *)
(* bit pattern) and for narrowing conversions (modulo 2^w).                *)
(***************************************************************************)
EXTENDS Integers, Sequences, FiniteSets, TLC

(***************************************************************************)
(* Bounds of the model.                                                    *)
(***************************************************************************)
\* Widths up to which a value is also read as a TLC integer (TLC's integers
\* are 32 bits wide, so wider values are compared bit by bit only).
NumericBits == 16
\* Field widths up to which every bit pattern of a field is enumerated.
SmallBits == 4
\* Bytes of each of the two buffers.
MemBytes == 64
\* Calls in one sequence of calls that share their cursors.
MaxCalls == 3

VARIABLES
    sh,                   \* the shift under test: type, number, shift, op, out
    unit,                 \* bits of the storage unit type T of the codec calls
    srcBuf, dstBuf,       \* the source and the destination buffer
    srcPtr, srcShift,     \* the caller's source cursor: byte address, bit shift
    dstPtr, dstShift,     \* the caller's destination cursor
    req,                  \* the arguments of the call to make
    last,                 \* the last call: arguments, state before, outcome
    hist,                 \* one record per call of a sequence or per field packed
    got,                  \* the integers extracted so far by BitSetToInteger
    threads,              \* the calls that run concurrently: arguments, position, locals
    accesses              \* the accesses the concurrent calls made to the buffers, in order

vars == <<sh, unit, srcBuf, dstBuf, srcPtr, srcShift, dstPtr, dstShift, req, last, hist, got, threads, accesses>>

codecVars == <<unit, srcBuf, dstBuf, srcPtr, srcShift, dstPtr, dstShift, req, last, hist, got, threads, accesses>>

(***************************************************************************)
(* Bit vectors: the C++ operators of an unsigned integer type of w bits.   *)
(***************************************************************************)
Bit(x, i) == x[i + 1]

\* The tuple of a bit vector given as a function on 1..w: TLC evaluates the
\* concatenation at once, so a vector is computed once and not once per use.
Tuple(f) == f \o <<>>

Zero(w) == Tuple([i \in 1..w |-> 0])

AllOnes(w) == Tuple([i \in 1..w |-> 1])

One(w) == Tuple([i \in 1..w |-> IF i = 1 THEN 1 ELSE 0])

BvNot(x) == Tuple([i \in 1..Len(x) |-> 1 - x[i]])

BvAnd(x, y) == Tuple([i \in 1..Len(x) |-> IF x[i] = 1 /\ y[i] = 1 THEN 1 ELSE 0])

BvOr(x, y) == Tuple([i \in 1..Len(x) |-> IF x[i] = 1 \/ y[i] = 1 THEN 1 ELSE 0])

\* number >> shift on an unsigned operand, 0 <= shift < width: zero fill.
BvShr(x, s) == Tuple([i \in 1..Len(x) |-> IF i + s <= Len(x) THEN x[i + s] ELSE 0])

\* number >> shift on a signed operand: the sign bit fills (gcc).
BvSar(x, s) == Tuple([i \in 1..Len(x) |-> IF i + s <= Len(x) THEN x[i + s] ELSE x[Len(x)]])

\* number << shift, 0 <= shift < width, truncated to the width.
BvShl(x, s) == Tuple([i \in 1..Len(x) |-> IF i > s THEN x[i - s] ELSE 0])

\* x - y modulo 2^w with its borrow chain, computed over the bits lo..hi for
\* a borrow coming in: <<the difference's bits lo..hi, the borrow going out>>.
RECURSIVE BvSubRange(_, _, _, _, _)
BvSubRange(x, y, lo, hi, borrow) ==
    IF lo = hi
    THEN LET t == x[lo] - y[lo] - borrow
         IN  <<<<(t + 2) % 2>>, IF t < 0 THEN 1 ELSE 0>>
    ELSE LET mid == (lo + hi) \div 2
             low == BvSubRange(x, y, lo, mid, borrow)
             high == BvSubRange(x, y, mid + 1, hi, low[2])
         IN  <<low[1] \o high[1], high[2]>>

BvSub(x, y) == BvSubRange(x, y, 1, Len(x), 0)[1]

\* x compared with y as unsigned integers over the bits lo..hi (1, 0 or -1):
\* decided by the highest bit that differs.
RECURSIVE BvCompareRange(_, _, _, _)
BvCompareRange(x, y, lo, hi) ==
    IF lo = hi
    THEN x[lo] - y[lo]
    ELSE LET mid == (lo + hi) \div 2
             high == BvCompareRange(x, y, mid + 1, hi)
         IN  IF high # 0 THEN high ELSE BvCompareRange(x, y, lo, mid)

BvGt(x, y) == BvCompareRange(x, y, 1, Len(x)) = 1

IsZero(x) == \A i \in 1..Len(x) : x[i] = 0

\* A value converted to uint8 (function parameters and locals of type uint8).
ToUint8(n) == n % 256

(***************************************************************************)
(* Integer types.  A native type is its width and signedness; a            *)
(* DoubleInteger<T2> is two halves of type T2, lower half first.           *)
(***************************************************************************)
NativeWidths == {8, 16, 32, 64}

NativeTypes == [bits : NativeWidths, signed : BOOLEAN, double : {FALSE}]

DoubleTypes == [bits : {2 * w : w \in NativeWidths}, signed : BOOLEAN, double : {TRUE}]

ShiftTypes == NativeTypes \cup DoubleTypes

\* sizeof(T) * 8
SizeBits(t) == t.bits

HalfBits(t) == t.bits \div 2

GetLower(number) == SubSeq(number, 1, Len(number) \div 2)

GetUpper(number) == SubSeq(number, Len(number) \div 2 + 1, Len(number))

\* SetLower / SetUpper on a copy: the value with the given halves.
DoubleIntegerOf(upper, lower) == lower \o upper

\* DoubleInteger<T2>::operator>>= for an unsigned T2: the 2w-bit value shifted
\* right with zero fill, bits carried from the upper to the lower half.
DoubleShiftRightAssign(number, shift) ==
    IF shift >= Len(number) THEN Zero(Len(number)) ELSE BvShr(number, shift)

\* DoubleInteger<T2>::operator>> as MathematicRightSafeShift uses it: the
\* shift of the declared signedness.
DoubleShiftRight(t, number, shift) ==
    IF t.signed THEN BvSar(number, shift) ELSE BvShr(number, shift)

\* DoubleInteger<T2>::operator<<
DoubleShiftLeft(number, shift) == BvShl(number, shift)

(***************************************************************************)
(* Shift.h                                                                 *)
(***************************************************************************)
\* LogicalRightShiftNative without the cast to the unsigned type.
LogicalRightShiftNativeUncast(number, shift) == BvSar(number, shift)

\* The overloads for uint8..uint64 and int8..int64: a signed operand is cast
\* to the unsigned type of its width first.
LogicalRightShiftNative(number, shift) == BvShr(number, shift)

\* T2 "operator >>" on one half of a DoubleInteger<T2>.
HalfShiftRight(t, half, shift) ==
    IF t.signed THEN BvSar(half, shift) ELSE BvShr(half, shift)

\* The overload for DoubleInteger<T2>.
LogicalRightShiftDouble(t, number, shift) ==
    IF t.signed
    THEN IF shift > 0
         THEN LET lower == GetLower(number)
                  upper == GetUpper(number)
                  bitSize == HalfBits(t)
              IN  IF shift < bitSize
                  THEN LET lower1 == HalfShiftRight(t, lower, shift)
                           lower2 == BvOr(lower1, BvShl(upper, bitSize - shift))
                           upper1 == HalfShiftRight(t, upper, shift)
                       IN  DoubleIntegerOf(upper1, lower2)
                  ELSE LET shift1 == ToUint8(shift - bitSize)
                           lower1 == HalfShiftRight(t, upper, shift1)
                           upper1 == IF upper[bitSize] = 1
                                     THEN AllOnes(bitSize)
                                     ELSE Zero(bitSize)
                       IN  DoubleIntegerOf(upper1, lower1)
         ELSE number
    ELSE DoubleShiftRightAssign(number, shift)

LogicalRightShift(t, number, shift) ==
    IF t.double THEN LogicalRightShiftDouble(t, number, shift)
    ELSE LogicalRightShiftNative(number, shift)

LogicalRightSafeShift(t, number, shift) ==
    LET bound == ToUint8(SizeBits(t))
    IN  IF shift >= bound THEN Zero(SizeBits(t))
        ELSE LogicalRightShift(t, number, shift)

LogicalLeftSafeShift(t, number, shift) ==
    LET bound == ToUint8(SizeBits(t))
    IN  IF shift >= bound THEN Zero(SizeBits(t))
        ELSE IF t.double THEN DoubleShiftLeft(number, shift)
        ELSE BvShl(number, shift)

\* MathematicRightSafeShift with the guard "shift > bits" for "shift >= bits".
MathematicRightSafeShiftLateGuard(t, number, shift) ==
    LET bound == SizeBits(t)
    IN  IF shift > bound THEN Zero(SizeBits(t))
        ELSE IF t.double THEN DoubleShiftRight(t, number, shift)
        ELSE IF t.signed THEN BvSar(number, shift)
        ELSE BvShr(number, shift)

MathematicRightSafeShift(t, number, shift) ==
    LET bound == SizeBits(t)
    IN  IF shift >= bound THEN Zero(SizeBits(t))
        ELSE IF t.double THEN DoubleShiftRight(t, number, shift)
        ELSE IF t.signed THEN BvSar(number, shift)
        ELSE BvShr(number, shift)

\* MathematicLeftSafeShift keeping the sign bit of a signed operand.
MathematicLeftSafeShiftKeepingSign(t, number, shift) ==
    LET bound == SizeBits(t)
    IN  IF shift >= bound THEN Zero(SizeBits(t))
        ELSE IF t.double THEN DoubleShiftLeft(number, shift)
        ELSE IF t.signed
             THEN Tuple([i \in 1..bound |->
                            IF i = bound THEN number[bound] ELSE BvShl(number, shift)[i]])
        ELSE BvShl(number, shift)

MathematicLeftSafeShift(t, number, shift) ==
    LET bound == SizeBits(t)
    IN  IF shift >= bound THEN Zero(SizeBits(t))
        ELSE IF t.double THEN DoubleShiftLeft(number, shift)
        ELSE BvShl(number, shift)

(***************************************************************************)
(* Memory: a tuple of bytes; byte address a (from 0) is mem[a + 1].        *)
(***************************************************************************)
ReadByte(mem, a) == IF a + 1 \in 1..Len(mem) THEN mem[a + 1] ELSE 0

\* MemoryOperationsHelper::Copy(&scratch, address, byteSize) into a zeroed
\* scratch of W bits: the scratch holds the first byteSize bytes, low byte
\* first.  Bytes past the scratch (byteSize > W/8) do not land in it.
CopyIn(W, mem, addr, byteSize) ==
    Tuple([i \in 1..W |->
              IF i <= 8 * byteSize
              THEN (ReadByte(mem, addr + (i - 1) \div 8) \div 2 ^ ((i - 1) % 8)) % 2
              ELSE 0])

ByteOf(value, k) ==
    value[8 * k + 1] + 2 * value[8 * k + 2] + 4 * value[8 * k + 3]
    + 8 * value[8 * k + 4] + 16 * value[8 * k + 5] + 32 * value[8 * k + 6]
    + 64 * value[8 * k + 7] + 128 * value[8 * k + 8]

\* What a call leaves of everything it can reach once a copy of its core
\* routine has run past the scratch value: the language leaves the behaviour
\* undefined, and a build kills the process, returns any value, or writes
\* any bytes of any length at the destination and past it.  Undefined
\* stands for each of these values at once, never for one of them.
Undefined == "undefined"

\* MemoryOperationsHelper::Copy(address, &scratch, byteSize): the first
\* byteSize bytes at address become the scratch's bytes.  A byte read past
\* the scratch (byteSize > W/8) is not a value of the program.
CopyOut(mem, addr, value, byteSize) ==
    Tuple([a \in 1..Len(mem) |->
              IF a - 1 >= addr /\ a - 1 < addr + byteSize
              THEN IF 8 * (a - 1 - addr) < Len(value)
                   THEN ByteOf(value, a - 1 - addr)
                   ELSE Undefined
              ELSE mem[a]])

\* The storage type of granularity W: uint8, uint16, uint32, uint64 or
\* DoubleInteger<uint64>.
UnitType(W) == [bits |-> W, signed |-> FALSE, double |-> W > 64]

(***************************************************************************)
(* BitSetToInteger.h                                                       *)
(***************************************************************************)
\* NarrowingFits with the mask sourceMask - destinationMask, which leaves
\* out the destination's sign bit.
NarrowingFitsAboveSign(t, sourceCopy, sourceMask, destinationMask) ==
    LET mask == BvSub(sourceMask, destinationMask)
    IN  BvAnd(sourceCopy, mask) = mask

\* The test of a negative source that is squeezed into a smaller signed
\* destination (lines 239-242): every bit where the source exceeds the
\* destination, its sign bit included, is set in the source.
NarrowingFits(t, sourceCopy, sourceMask, destinationMask) ==
    LET mask == BvSub(sourceMask, LogicalRightSafeShift(t, destinationMask, 1))
    IN  BvAnd(sourceCopy, mask) = mask

\* BSToBSValue without the saturation of a non-negative source.
BSToBSValueUnsaturated(t, W, sourceCopy, sourceMask, destinationMask, destinationSignMask, sourceIsNegative, destinationIsSigned, sourceBitSize, destinationBitSize) ==
    IF sourceIsNegative
    THEN IF ~destinationIsSigned
         THEN Zero(W)
         ELSE IF sourceBitSize > destinationBitSize
              THEN LET mask == BvSub(sourceMask, LogicalRightSafeShift(t, destinationMask, 1))
                   IN  IF BvAnd(sourceCopy, mask) # mask
                       THEN destinationSignMask
                       ELSE sourceCopy
              ELSE LET mask == BvSub(destinationMask, sourceMask)
                   IN  BvOr(sourceCopy, mask)
    ELSE sourceCopy

\* The value BSToBS merges into the destination: sourceCopy after
\* saturation or sign extension, before it is moved to its position.
BSToBSValue(t, W, sourceCopy, sourceMask, destinationMask, destinationSignMask, sourceIsNegative, destinationIsSigned, sourceBitSize, destinationBitSize) ==
    IF sourceIsNegative
    THEN IF ~destinationIsSigned
         THEN Zero(W)
         ELSE IF sourceBitSize > destinationBitSize
              THEN IF ~NarrowingFits(t, sourceCopy, sourceMask, destinationMask)
                   THEN destinationSignMask
                   ELSE sourceCopy
              ELSE LET mask == BvSub(destinationMask, sourceMask)
                   IN  BvOr(sourceCopy, mask)
    ELSE LET maxPositiveValue ==
                 IF destinationIsSigned
                 THEN LogicalRightSafeShift(t, destinationMask, 1)
                 ELSE destinationMask
         IN  IF BvGt(sourceCopy, maxPositiveValue) THEN maxPositiveValue ELSE sourceCopy

\* BSToBS copying the merged value back to the source address.
BSToBSWritingSource(W, dstMem, dstAddr, destinationBitShift, destinationBitSize, destinationIsSigned, srcMem, srcAddr, sourceBitShift, sourceBitSize, sourceIsSigned, copyOk) ==
    LET t == UnitType(W)
        dataSize == ToUint8(W)
        sourceMask == LogicalRightSafeShift(t, AllOnes(W), ToUint8(dataSize - sourceBitSize))
        destinationMask == LogicalRightSafeShift(t, AllOnes(W), ToUint8(dataSize - destinationBitSize))
        sourceSignMask == LogicalLeftSafeShift(t, One(W), ToUint8(sourceBitSize - 1))
        destinationSignMask == LogicalLeftSafeShift(t, One(W), ToUint8(destinationBitSize - 1))
        sourceByteSize == ((sourceBitSize + sourceBitShift) + 7) \div 8
        sourceCopy0 == IF copyOk[1] THEN CopyIn(W, srcMem, srcAddr, sourceByteSize) ELSE Zero(W)
        sourceCopy1 == BvAnd(LogicalRightSafeShift(t, sourceCopy0, sourceBitShift), sourceMask)
        signBit == BvAnd(sourceCopy1, sourceSignMask)
        sourceIsNegative == sourceIsSigned /\ ~IsZero(signBit)
        sourceCopy2 == BSToBSValue(t, W, sourceCopy1, sourceMask, destinationMask,
                                   destinationSignMask, sourceIsNegative, destinationIsSigned,
                                   sourceBitSize, destinationBitSize)
        sourceCopy3 == LogicalLeftSafeShift(t, sourceCopy2, destinationBitShift)
        destinationMask1 == BvNot(LogicalLeftSafeShift(t, destinationMask, destinationBitShift))
        destinationByteSize == ((destinationBitSize + destinationBitShift) + 7) \div 8
        destinationCopy == IF copyOk[2] THEN CopyIn(W, dstMem, dstAddr, destinationByteSize) ELSE Zero(W)
        merged == BvOr(sourceCopy3, BvAnd(destinationMask1, destinationCopy))
        overrun == 8 * sourceByteSize > W \/ 8 * destinationByteSize > W
        \* a copy that is made with more bytes than the scratch value holds
        sourceOverrun == copyOk[1] /\ 8 * sourceByteSize > W
        destinationOverrun == (copyOk[2] \/ copyOk[3]) /\ 8 * destinationByteSize > W
        undefined == sourceOverrun \/ destinationOverrun
    IN  [dstMem |-> IF undefined THEN Undefined
                    ELSE IF copyOk[3]
                    THEN CopyOut(dstMem, srcAddr, merged, destinationByteSize)
                    ELSE dstMem,
         srcRead |-> sourceByteSize,
         dstRead |-> IF sourceOverrun THEN Undefined ELSE destinationByteSize,
         dstWritten |-> IF undefined THEN Undefined ELSE destinationByteSize,
         overrun |-> overrun,
         undefined |-> undefined,
         reports |-> IF undefined THEN Undefined ELSE Cardinality({k \in 1..3 : ~copyOk[k]})]

\* copyOk[k]: whether the k-th MemoryOperationsHelper::Copy of the call
\* succeeds.  The first copy is always made with sourceByteSize bytes, and
\* the second with destinationByteSize bytes when the first fitted the
\* scratch; from the first copy that runs past the scratch on, nothing the
\* call does or leaves is defined.
BSToBS(W, dstMem, dstAddr, destinationBitShift, destinationBitSize, destinationIsSigned, srcMem, srcAddr, sourceBitShift, sourceBitSize, sourceIsSigned, copyOk) ==
    LET t == UnitType(W)
        dataSize == ToUint8(W)
        sourceMask == LogicalRightSafeShift(t, AllOnes(W), ToUint8(dataSize - sourceBitSize))
        destinationMask == LogicalRightSafeShift(t, AllOnes(W), ToUint8(dataSize - destinationBitSize))
        sourceSignMask == LogicalLeftSafeShift(t, One(W), ToUint8(sourceBitSize - 1))
        destinationSignMask == LogicalLeftSafeShift(t, One(W), ToUint8(destinationBitSize - 1))
        sourceByteSize == ((sourceBitSize + sourceBitShift) + 7) \div 8
        sourceCopy0 == IF copyOk[1] THEN CopyIn(W, srcMem, srcAddr, sourceByteSize) ELSE Zero(W)
        sourceCopy1 == BvAnd(LogicalRightSafeShift(t, sourceCopy0, sourceBitShift), sourceMask)
        signBit == BvAnd(sourceCopy1, sourceSignMask)
        sourceIsNegative == sourceIsSigned /\ ~IsZero(signBit)
        sourceCopy2 == BSToBSValue(t, W, sourceCopy1, sourceMask, destinationMask,
                                   destinationSignMask, sourceIsNegative, destinationIsSigned,
                                   sourceBitSize, destinationBitSize)
        sourceCopy3 == LogicalLeftSafeShift(t, sourceCopy2, destinationBitShift)
        destinationMask1 == BvNot(LogicalLeftSafeShift(t, destinationMask, destinationBitShift))
        destinationByteSize == ((destinationBitSize + destinationBitShift) + 7) \div 8
        destinationCopy == IF copyOk[2] THEN CopyIn(W, dstMem, dstAddr, destinationByteSize) ELSE Zero(W)
        merged == BvOr(sourceCopy3, BvAnd(destinationMask1, destinationCopy))
        overrun == 8 * sourceByteSize > W \/ 8 * destinationByteSize > W
        \* a copy that is made with more bytes than the scratch value holds
        sourceOverrun == copyOk[1] /\ 8 * sourceByteSize > W
        destinationOverrun == (copyOk[2] \/ copyOk[3]) /\ 8 * destinationByteSize > W
        undefined == sourceOverrun \/ destinationOverrun
    IN  [dstMem |-> IF undefined THEN Undefined
                    ELSE IF copyOk[3]
                    THEN CopyOut(dstMem, dstAddr, merged, destinationByteSize)
                    ELSE dstMem,
         srcRead |-> sourceByteSize,
         dstRead |-> IF sourceOverrun THEN Undefined ELSE destinationByteSize,
         dstWritten |-> IF undefined THEN Undefined ELSE destinationByteSize,
         overrun |-> overrun,
         undefined |-> undefined,
         reports |-> IF undefined THEN Undefined ELSE Cardinality({k \in 1..3 : ~copyOk[k]})]

\* granularityShift: 3 plus one per halving of sizeof(T) down to 1.
RECURSIVE GranularityShiftFrom(_, _)
GranularityShiftFrom(temp, granularityShift) ==
    IF temp > 1
    THEN GranularityShiftFrom(
             ByteOf(LogicalRightSafeShift(UnitType(8), CopyIn(8, <<temp>>, 0, 1), 1), 0),
             granularityShift + 1)
    ELSE granularityShift

\* SelectGranularity without the tests on the storage unit's own width.
SelectGranularityAnyUnit(granularity, sourceBitEnd, destinationBitEnd) ==
    IF sourceBitEnd <= 8 /\ destinationBitEnd <= 8 THEN 8
    ELSE IF sourceBitEnd <= 16 /\ destinationBitEnd <= 16 THEN 16
    ELSE IF sourceBitEnd <= 32 /\ destinationBitEnd <= 32 THEN 32
    ELSE IF sourceBitEnd <= 64 /\ destinationBitEnd <= 64 THEN 64
    ELSE IF sourceBitEnd <= 128 /\ destinationBitEnd <= 128 THEN 128
    ELSE 0

\* The granularity BitSetToBitSet runs BSToBS at, 0 when it runs none.
SelectGranularity(granularity, sourceBitEnd, destinationBitEnd) ==
    IF sourceBitEnd <= 8 /\ destinationBitEnd <= 8 /\ granularity = 8 THEN 8
    ELSE IF sourceBitEnd <= 16 /\ destinationBitEnd <= 16 /\ granularity <= 16 THEN 16
    ELSE IF sourceBitEnd <= 32 /\ destinationBitEnd <= 32 /\ granularity <= 32 THEN 32
    ELSE IF sourceBitEnd <= 64 /\ destinationBitEnd <= 64 /\ granularity <= 64 THEN 64
    ELSE IF sourceBitEnd <= 128 /\ destinationBitEnd <= 128 /\ granularity <= 128 THEN 128
    ELSE 0

\* NormalizedPointer advancing the pointer by index bytes, not by index
\* storage units.
NormalizedPointerInBytes(U, ptr, bitShift) ==
    IF bitShift >= ToUint8(U)
    THEN LET index == ByteOf(LogicalRightSafeShift(UnitType(8), CopyIn(8, <<bitShift>>, 0, 1),
                                                   GranularityShiftFrom(U \div 8, 3)), 0)
         IN  ptr + index
    ELSE ptr

\* Normalisation of one cursor: the pointer (a byte address) advanced by
\* shift >> granularityShift units of U bits, the shift masked.
NormalizedPointer(U, ptr, bitShift) ==
    IF bitShift >= ToUint8(U)
    THEN LET index == ByteOf(LogicalRightSafeShift(UnitType(8), CopyIn(8, <<bitShift>>, 0, 1),
                                                   GranularityShiftFrom(U \div 8, 3)), 0)
         IN  ptr + index * (U \div 8)
    ELSE ptr

\* NormalizedShift without the mask: the shift keeps the units the pointer
\* has been advanced by.
NormalizedShiftUnmasked(U, bitShift) == bitShift

\* bitShift &= granularityMask, with granularityMask = granularity - 1
NormalizedShift(U, bitShift) ==
    IF bitShift >= ToUint8(U)
    THEN ByteOf(BvAnd(CopyIn(8, <<bitShift>>, 0, 1), CopyIn(8, <<ToUint8(U - 1)>>, 0, 1)), 0)
    ELSE bitShift

\* BitSetToBitSet returning false when a copy of the core routine failed.
BitSetToBitSetCopyChecked(U, dstMem, destination, destinationBitShift, destinationBitSize, destinationIsSigned, srcMem, source, sourceBitShift, sourceBitSize, sourceIsSigned, copyOk) ==
    LET source1 == NormalizedPointer(U, source, sourceBitShift)
        sourceBitShift1 == NormalizedShift(U, sourceBitShift)
        destination1 == NormalizedPointer(U, destination, destinationBitShift)
        destinationBitShift1 == NormalizedShift(U, destinationBitShift)
        G == SelectGranularity(ToUint8(U), ToUint8(sourceBitShift1 + sourceBitSize),
                               ToUint8(destinationBitShift1 + destinationBitSize))
        core == IF G # 0
                THEN BSToBS(G, dstMem, destination1, destinationBitShift1, destinationBitSize,
                            destinationIsSigned, srcMem, source1, sourceBitShift1, sourceBitSize,
                            sourceIsSigned, copyOk)
                ELSE [dstMem |-> dstMem, srcRead |-> 0, dstRead |-> 0, dstWritten |-> 0,
                      overrun |-> FALSE, undefined |-> FALSE, reports |-> 0]
    IN  [ret |-> IF core.undefined THEN Undefined ELSE G # 0 /\ copyOk = <<TRUE, TRUE, TRUE>>,
         granularity |-> G,
         dstMem |-> core.dstMem,
         destination |-> destination1,
         source |-> source1,
         normDestinationBitShift |-> destinationBitShift1,
         normSourceBitShift |-> sourceBitShift1,
         destinationBitShift |-> IF core.undefined
                                 THEN Undefined
                                 ELSE ToUint8(destinationBitShift1 + destinationBitSize),
         sourceBitShift |-> IF core.undefined
                            THEN Undefined
                            ELSE ToUint8(sourceBitShift1 + sourceBitSize),
         srcRead |-> core.srcRead,
         dstRead |-> core.dstRead,
         dstWritten |-> core.dstWritten,
         overrun |-> core.overrun,
         undefined |-> core.undefined,
         reports |-> core.reports]

\* U: the bits of the storage unit T.  Pointers are byte addresses.
BitSetToBitSet(U, dstMem, destination, destinationBitShift, destinationBitSize, destinationIsSigned, srcMem, source, sourceBitShift, sourceBitSize, sourceIsSigned, copyOk) ==
    LET granularity == ToUint8(U)
        source1 == NormalizedPointer(U, source, sourceBitShift)
        sourceBitShift1 == NormalizedShift(U, sourceBitShift)
        destination1 == NormalizedPointer(U, destination, destinationBitShift)
        destinationBitShift1 == NormalizedShift(U, destinationBitShift)
        sourceBitEnd == ToUint8(sourceBitShift1 + sourceBitSize)
        destinationBitEnd == ToUint8(destinationBitShift1 + destinationBitSize)
        G == SelectGranularity(granularity, sourceBitEnd, destinationBitEnd)
        core == IF G # 0
                THEN BSToBS(G, dstMem, destination1, destinationBitShift1, destinationBitSize,
                            destinationIsSigned, srcMem, source1, sourceBitShift1, sourceBitSize,
                            sourceIsSigned, copyOk)
                ELSE [dstMem |-> dstMem, srcRead |-> 0, dstRead |-> 0, dstWritten |-> 0,
                      overrun |-> FALSE, undefined |-> FALSE, reports |-> 0]
    IN  [ret |-> IF core.undefined THEN Undefined ELSE G # 0,
         granularity |-> G,
         dstMem |-> core.dstMem,
         destination |-> destination1,
         source |-> source1,
         normDestinationBitShift |-> destinationBitShift1,
         normSourceBitShift |-> sourceBitShift1,
         destinationBitShift |-> IF core.undefined
                                 THEN Undefined
                                 ELSE ToUint8(destinationBitShift1 + destinationBitSize),
         sourceBitShift |-> IF core.undefined
                            THEN Undefined
                            ELSE ToUint8(sourceBitShift1 + sourceBitSize),
         srcRead |-> core.srcRead,
         dstRead |-> core.dstRead,
         dstWritten |-> core.dstWritten,
         overrun |-> core.overrun,
         undefined |-> core.undefined,
         reports |-> core.reports]

\* The bytes of an integer variable, low byte first.
BytesOf(value) == Tuple([k \in 1..(Len(value) \div 8) |-> ByteOf(value, k - 1)])

\* The integer variable of type t2 that the bytes of mem are.
IntegerAt(t2, mem) == CopyIn(t2.bits, mem, 0, t2.bits \div 8)

\* BitSetToInteger taking every T2 for unsigned.
BitSetToIntegerUnsigned(U, t2, dest, srcMem, source, sourceBitShift, sourceBitSize, sourceIsSigned, copyOk) ==
    BitSetToBitSet(U, BytesOf(dest), 0, 0, ToUint8(t2.bits), FALSE, srcMem, source,
                   sourceBitShift, sourceBitSize, sourceIsSigned, copyOk)

\* BitSetToInteger handing the caller's source shift to BitSetToBitSet for
\* the destination shift as well.
BitSetToIntegerSharedShift(U, t2, dest, srcMem, source, sourceBitShift, sourceBitSize, sourceIsSigned, copyOk) ==
    BitSetToBitSet(U, BytesOf(dest), 0, sourceBitShift, ToUint8(t2.bits), t2.signed, srcMem, source,
                   sourceBitShift, sourceBitSize, sourceIsSigned, copyOk)

\* t2: the type T2 of dest.  source is a byte address in srcMem.  The result
\* is that of BitSetToBitSet on the bytes of dest: its dstMem holds dest after
\* the call.
BitSetToInteger(U, t2, dest, srcMem, source, sourceBitShift, sourceBitSize, sourceIsSigned, copyOk) ==
    BitSetToBitSet(U, BytesOf(dest), 0, 0, ToUint8(t2.bits), t2.signed, srcMem, source,
                   sourceBitShift, sourceBitSize, sourceIsSigned, copyOk)

\* IntegerToBitSet with sizeof(T2), without "* 8u", for the source's size.
IntegerToBitSetSizeInBytes(U, dstMem, destination, destinationBitShift, destinationBitSize, destinationIsSigned, t2, src, copyOk) ==
    BitSetToBitSet(U, dstMem, destination, destinationBitShift, destinationBitSize,
                   destinationIsSigned, BytesOf(src), 0, 0, ToUint8(t2.bits \div 8), t2.signed,
                   copyOk)

\* t2: the type T2 of src.  destination is a byte address in dstMem.  The
\* result is that of BitSetToBitSet with the bytes of src for the source.
IntegerToBitSet(U, dstMem, destination, destinationBitShift, destinationBitSize, destinationIsSigned, t2, src, copyOk) ==
    BitSetToBitSet(U, dstMem, destination, destinationBitShift, destinationBitSize,
                   destinationIsSigned, BytesOf(src), 0, 0, ToUint8(t2.bits), t2.signed,
                   copyOk)

(***************************************************************************)
(* Values the checks read and the inputs they draw.                        *)
(***************************************************************************)
\* The w-bit pattern of the natural number n < 2^w.
FromNat(w, n) == Tuple([i \in 1..w |-> (n \div 2 ^ (i - 1)) % 2])

\* Bits 0..k-1 set, the rest clear: 2^k - 1.
LowRun(w, k) == Tuple([i \in 1..w |-> IF i <= k THEN 1 ELSE 0])

\* Bits k..w-1 set, the rest clear: -2^k as a signed value.
HighRun(w, k) == Tuple([i \in 1..w |-> IF i > k THEN 1 ELSE 0])

\* Bit k alone: 2^k.
OneBit(w, k) == Tuple([i \in 1..w |-> IF i = k + 1 THEN 1 ELSE 0])

\* Every bit but bit k: -2^k - 1 as a signed value.
AllBut(w, k) == Tuple([i \in 1..w |-> IF i = k + 1 THEN 0 ELSE 1])

\* 0101...: the bits at even positions set.
Alternating(w) == Tuple([i \in 1..w |-> i % 2])

\* The value of a bit vector read as an unsigned integer (Len(x) <= 30).
RECURSIVE UnsignedRange(_, _, _)
UnsignedRange(x, lo, hi) ==
    IF lo > hi THEN 0
    ELSE IF lo = hi THEN x[lo] * 2 ^ (lo - 1)
    ELSE LET mid == (lo + hi) \div 2
         IN  UnsignedRange(x, lo, mid) + UnsignedRange(x, mid + 1, hi)

UnsignedValue(x) == UnsignedRange(x, 1, Len(x))

\* The value of a bit vector read as two's complement.
SignedValue(x) ==
    IF x[Len(x)] = 1 THEN UnsignedValue(x) - 2 ^ Len(x) ELSE UnsignedValue(x)

ValueOf(x, signed) == IF signed THEN SignedValue(x) ELSE UnsignedValue(x)

(***************************************************************************)
(* The safe shifts under test.  Init draws a type, a number and a shift;   *)
(* each action applies one of the four functions of Shift.h to them.       *)
(***************************************************************************)
NoShift == [op |-> "none"]

NoCall == [op |-> "none"]

Positions(w) == {0, 1, 2, w \div 2 - 1, w \div 2, w \div 2 + 1, w - 2, w - 1, w}

RunPatterns(w) ==
    {LowRun(w, k) : k \in Positions(w)} \cup {HighRun(w, k) : k \in Positions(w)}
    \cup {Alternating(w), BvNot(Alternating(w))}

HalfPatterns(w) ==
    {Zero(w), AllOnes(w), One(w), OneBit(w, w - 1), LowRun(w, w - 1),
     Alternating(w), BvNot(Alternating(w))}

ShiftNumbers(t) ==
    IF t.double
    THEN {DoubleIntegerOf(u, l) : u \in HalfPatterns(HalfBits(t)), l \in HalfPatterns(HalfBits(t))}
    ELSE IF t.bits = 8 THEN {FromNat(8, n) : n \in 0..255}
    ELSE RunPatterns(t.bits)

ShiftAmounts(t) ==
    {s \in Positions(t.bits) \cup Positions(HalfBits(t))
           \cup {t.bits + 1, 2 * t.bits, 127, 128, 129, 254, 255} : s \in 0..255}

ShiftIdle ==
    /\ unit = 8
    /\ srcBuf = <<>>
    /\ dstBuf = <<>>
    /\ srcPtr = 0
    /\ srcShift = 0
    /\ dstPtr = 0
    /\ dstShift = 0
    /\ req = NoCall
    /\ last = NoCall
    /\ hist = <<>>
    /\ got = <<>>
    /\ threads = <<>>
    /\ accesses = <<>>

InitShift ==
    /\ \E t \in ShiftTypes :
         \E number \in ShiftNumbers(t) :
           \E shift \in ShiftAmounts(t) :
             sh = [type |-> t, number |-> number, shift |-> shift, op |-> "none", out |-> <<>>]
    /\ ShiftIdle

LogicalRightSafeShiftCall ==
    /\ sh.op = "none"
    /\ sh' = [sh EXCEPT !.op = "LogicalRightSafeShift",
                        !.out = LogicalRightSafeShift(sh.type, sh.number, sh.shift)]
    /\ UNCHANGED codecVars

LogicalLeftSafeShiftCall ==
    /\ sh.op = "none"
    /\ sh' = [sh EXCEPT !.op = "LogicalLeftSafeShift",
                        !.out = LogicalLeftSafeShift(sh.type, sh.number, sh.shift)]
    /\ UNCHANGED codecVars

MathematicRightSafeShiftCall ==
    /\ sh.op = "none"
    /\ sh' = [sh EXCEPT !.op = "MathematicRightSafeShift",
                        !.out = MathematicRightSafeShift(sh.type, sh.number, sh.shift)]
    /\ UNCHANGED codecVars

MathematicLeftSafeShiftCall ==
    /\ sh.op = "none"
    /\ sh' = [sh EXCEPT !.op = "MathematicLeftSafeShift",
                        !.out = MathematicLeftSafeShift(sh.type, sh.number, sh.shift)]
    /\ UNCHANGED codecVars

NextShift ==
    \/ LogicalRightSafeShiftCall
    \/ LogicalLeftSafeShiftCall
    \/ MathematicRightSafeShiftCall
    \/ MathematicLeftSafeShiftCall

SpecShift == InitShift /\ [][NextShift]_vars

ShiftDone == sh.op # "none"

(***************************************************************************)
(* The codec under test.  Init draws the storage unit, the two buffers,    *)
(* the cursors and the arguments of the call; the action makes the call.   *)
(***************************************************************************)
Units == {8, 16, 32, 64, 128}

MemBit(mem, b) == (ReadByte(mem, b \div 8) \div 2 ^ (b % 8)) % 2

\* The size bits of mem from bit shift of the byte at addr on.
FieldBits(mem, addr, shift, size) ==
    Tuple([i \in 1..size |-> MemBit(mem, 8 * addr + shift + i - 1)])

\* A buffer whose bits pos .. pos+Len(field)-1 hold field and whose other bits
\* are all bg.
BufferWith(bg, pos, field) ==
    LET bit(b) == IF b >= pos /\ b < pos + Len(field) THEN field[b - pos + 1] ELSE bg
    IN  Tuple([a \in 1..MemBytes |->
                  bit(8 * a - 8) + 2 * bit(8 * a - 7) + 4 * bit(8 * a - 6) + 8 * bit(8 * a - 5)
                  + 16 * bit(8 * a - 4) + 32 * bit(8 * a - 3) + 64 * bit(8 * a - 2)
                  + 128 * bit(8 * a - 1)])

FilledBuffer(byte) == Tuple([a \in 1..MemBytes |-> byte])

Clip(k, lo, hi) == IF k < lo THEN lo ELSE IF k > hi THEN hi ELSE k

\* Source fields of a bits around the limits of a destination of d bits:
\* 0, -1, 2^(d-1)-1, 2^d-1, 2^(d-1), 2^d, the source's sign bit alone,
\* -2^(d-1), -2^(d-2), -2^(d-1)-1, -2^d-1 and 0101...
BoundaryFields(a, d) ==
    {Zero(a), AllOnes(a), Alternating(a),
     LowRun(a, Clip(d - 1, 0, a)), LowRun(a, Clip(d, 0, a)),
     OneBit(a, Clip(d - 1, 0, a - 1)), OneBit(a, Clip(d, 0, a - 1)), OneBit(a, a - 1),
     HighRun(a, Clip(d - 1, 0, a)), HighRun(a, Clip(d - 2, 0, a)),
     AllBut(a, Clip(d - 1, 0, a - 1)), AllBut(a, Clip(d, 0, a - 1))}

KeySizes(U) == {1, 2, U \div 2, U - 1, U}

\* Layouts of a call: the two incoming shifts, the bit around the source
\* field and the byte that fills the destination.
Layouts(U) ==
    {[sShift |-> 0, dShift |-> 0, srcBg |-> 0, dstByte |-> 0],
     [sShift |-> 3, dShift |-> 0, srcBg |-> 1, dstByte |-> 255],
     [sShift |-> 0, dShift |-> 5, srcBg |-> 0, dstByte |-> 165],
     [sShift |-> U + 1, dShift |-> U + U \div 2, srcBg |-> 1, dstByte |-> 90]}

Request(dSize, dSigned, sSize, sSigned) ==
    [op |-> "BitSetToBitSet",
     destinationBitSize |-> dSize, destinationIsSigned |-> dSigned,
     sourceBitSize |-> sSize, sourceIsSigned |-> sSigned]

Scenario(U, lay, field, dSize, dSigned, sSigned) ==
    /\ unit = U
    /\ srcBuf = BufferWith(lay.srcBg, lay.sShift, field)
    /\ dstBuf = FilledBuffer(lay.dstByte)
    /\ srcPtr = 0
    /\ srcShift = lay.sShift
    /\ dstPtr = 0
    /\ dstShift = lay.dShift
    /\ req = Request(dSize, dSigned, Len(field), sSigned)

\* Fields around the limits of the destination, at every unit and layout.
BoundaryScenario ==
    \E U \in Units, dSigned \in BOOLEAN, sSigned \in BOOLEAN :
      \E lay \in Layouts(U), sSize \in KeySizes(U), dSize \in KeySizes(U) :
        \E field \in BoundaryFields(sSize, dSize) :
          Scenario(U, lay, field, dSize, dSigned, sSigned)

\* Every bit pattern of every field of up to SmallBits bits.
SmallScenario ==
    \E U \in {8, 16}, dSigned \in BOOLEAN, sSigned \in BOOLEAN :
      \E lay \in {l \in Layouts(U) : l.sShift < U},
         sSize \in 1..SmallBits, dSize \in (1..SmallBits) \cup {U} :
        \E n \in 0..(2 ^ sSize - 1) :
          Scenario(U, lay, FromNat(sSize, n), dSize, dSigned, sSigned)

\* Every negative value of a signed 8-bit source into every smaller signed
\* destination.
NarrowingScenario ==
    \E U \in {8, 32}, dSize \in 1..7, n \in 128..255 :
      Scenario(U, [sShift |-> 0, dShift |-> 2, srcBg |-> 0, dstByte |-> 90],
               FromNat(8, n), dSize, TRUE, TRUE)

\* Every value of the incoming shifts, at every unit.
ShiftScenario ==
    \E U \in Units, s \in 0..255 :
      Scenario(U, [sShift |-> s, dShift |-> 255 - s, srcBg |-> 0, dstByte |-> 0],
               <<1, 0, 1>>, 3, FALSE, FALSE)

\* Bit ranges that end on either side of each granularity.
RangeEnds == {7, 8, 9, 16, 17, 32, 33, 64, 65, 127, 128, 129, 255}

RangeScenario ==
    \E U \in Units, sShift \in {0, 1}, dShift \in {0, 6} :
      \E sEnd \in RangeEnds, dEnd \in RangeEnds :
        /\ sEnd - sShift \in 1..128
        /\ dEnd - dShift \in 1..128
        /\ Scenario(U, [sShift |-> sShift, dShift |-> dShift, srcBg |-> 1, dstByte |-> 0],
                    Alternating(sEnd - sShift), dEnd - dShift, FALSE, FALSE)

\* Sizes past 128 bits, which the 8-bit parameters admit.
WideSizes == {129, 200, 249, 250, 255}

WideScenario ==
    \E U \in Units, sShift \in {0, 1, 7}, dShift \in {0, 1, 7} :
      \E sSize \in WideSizes \cup {1, 8}, dSize \in WideSizes \cup {1, 8} :
        /\ sSize \in WideSizes \/ dSize \in WideSizes
        /\ Scenario(U, [sShift |-> sShift, dShift |-> dShift, srcBg |-> 1, dstByte |-> 0],
                    AllOnes(sSize), dSize, FALSE, FALSE)

CodecIdle ==
    /\ sh = NoShift
    /\ last = NoCall
    /\ hist = <<>>
    /\ got = <<>>
    /\ threads = <<>>
    /\ accesses = <<>>

Init ==
    /\ \/ BoundaryScenario \/ SmallScenario \/ NarrowingScenario
       \/ ShiftScenario \/ RangeScenario \/ WideScenario
    /\ CodecIdle

\* The record of a BitSetToBitSet call: its arguments, the caller's state
\* before it and what it did.
CallRecord(r, out) ==
    [op |-> r.op, unit |-> unit,
     destinationBitSize |-> r.destinationBitSize,
     destinationIsSigned |-> r.destinationIsSigned,
     sourceBitSize |-> r.sourceBitSize,
     sourceIsSigned |-> r.sourceIsSigned,
     preDstBuf |-> dstBuf, preSrcPtr |-> srcPtr, preSrcShift |-> srcShift,
     preDstPtr |-> dstPtr, preDstShift |-> dstShift,
     ret |-> out.ret, granularity |-> out.granularity,
     source |-> out.source, normSourceBitShift |-> out.normSourceBitShift,
     destination |-> out.destination, normDestinationBitShift |-> out.normDestinationBitShift,
     srcRead |-> out.srcRead, dstRead |-> out.dstRead, dstWritten |-> out.dstWritten,
     overrun |-> out.overrun, undefined |-> out.undefined, reports |-> out.reports]

\* The caller's variable after a call with the result out: value when the
\* call's behaviour is defined.
AfterCall(out, value) == IF out.undefined THEN Undefined ELSE value

BitSetToBitSetCall ==
    /\ req.op = "BitSetToBitSet"
    /\ \E out \in {BitSetToBitSet(unit, dstBuf, dstPtr, dstShift, req.destinationBitSize,
                                  req.destinationIsSigned, srcBuf, srcPtr, srcShift,
                                  req.sourceBitSize, req.sourceIsSigned,
                                  <<TRUE, TRUE, TRUE>>)} :
         /\ dstBuf' = out.dstMem
         /\ srcBuf' = AfterCall(out, srcBuf)
         /\ dstPtr' = AfterCall(out, out.destination)
         /\ dstShift' = out.destinationBitShift
         /\ srcPtr' = AfterCall(out, out.source)
         /\ srcShift' = out.sourceBitShift
         /\ last' = CallRecord(req, out)
    /\ req' = NoCall
    /\ UNCHANGED <<threads, accesses, sh, unit, hist, got>>

Next == BitSetToBitSetCall

Spec == Init /\ [][Next]_vars

(***************************************************************************)
(* Calls in which copies of MemoryOperationsHelper::Copy fail.  hist holds *)
(* which of the three copies of the call succeeded.                        *)
(***************************************************************************)
\* A field of ones, in and out of every granularity, with both signs alike.
FailScenario ==
    \E U \in Units, signed \in BOOLEAN :
      \E lay \in Layouts(U), sSize \in KeySizes(U) \cup {128}, dSize \in KeySizes(U) \cup {128} :
        Scenario(U, lay, AllOnes(sSize), dSize, signed, signed)

InitFail ==
    /\ FailScenario
    /\ CodecIdle

\* Whether the copy of the source, the copy of the destination and the copy
\* back to the destination succeed.
CopyOutcomes == {<<a, b, c>> : a \in BOOLEAN, b \in BOOLEAN, c \in BOOLEAN}

BitSetToBitSetFaulty ==
    /\ req.op = "BitSetToBitSet"
    /\ \E copyOk \in CopyOutcomes :
         \E out \in {BitSetToBitSet(unit, dstBuf, dstPtr, dstShift, req.destinationBitSize,
                                    req.destinationIsSigned, srcBuf, srcPtr, srcShift,
                                    req.sourceBitSize, req.sourceIsSigned, copyOk)} :
             /\ dstBuf' = out.dstMem
             /\ dstPtr' = out.destination
             /\ dstShift' = out.destinationBitShift
             /\ srcPtr' = out.source
             /\ srcShift' = out.sourceBitShift
             /\ last' = CallRecord(req, out)
             /\ hist' = <<copyOk>>
    /\ req' = NoCall
    /\ UNCHANGED <<threads, accesses, sh, unit, srcBuf, got>>

NextFail == BitSetToBitSetFaulty

SpecFail == InitFail /\ [][NextFail]_vars

(***************************************************************************)
(* Sequences of BitSetToBitSet calls that share the two cursors.  hist     *)
(* holds one record per call made.                                         *)
(***************************************************************************)
\* srcBuf of the sequences: a fixed mix of bytes.
MixedBuffer == Tuple([a \in 1..MemBytes |-> (37 * a + 11) % 256])

\* <<sourceBitSize, destinationBitSize>> of a call of a sequence.
SequenceSizes == {<<1, 1>>, <<3, 5>>, <<8, 8>>, <<64, 7>>, <<128, 128>>, <<100, 127>>}

SourcePosition == 8 * srcPtr + srcShift

DestinationPosition == 8 * dstPtr + dstShift

InitSeq ==
    /\ unit \in Units
    /\ srcBuf = MixedBuffer
    /\ dstBuf = FilledBuffer(0)
    /\ srcPtr = 0
    /\ dstPtr = 0
    /\ \E shifts \in {<<0, 0>>, <<unit + 1, 5>>} :
         /\ srcShift = shifts[1]
         /\ dstShift = shifts[2]
         /\ req = [op |-> "sequence", sourceStart |-> shifts[1], destinationStart |-> shifts[2]]
    /\ CodecIdle

\* One more call of the sequence; the calls alternate signed and unsigned.
BitSetToBitSetStep ==
    /\ req.op = "sequence"
    /\ Len(hist) < MaxCalls
    /\ \E sizes \in SequenceSizes :
         /\ SourcePosition + sizes[1] + 128 <= 8 * MemBytes
         /\ DestinationPosition + sizes[2] + 128 <= 8 * MemBytes
         /\ LET r == Request(sizes[2], Len(hist) % 2 = 0, sizes[1], Len(hist) % 2 = 0)
            IN  \E out \in {BitSetToBitSet(unit, dstBuf, dstPtr, dstShift, sizes[2],
                                           r.destinationIsSigned, srcBuf, srcPtr, srcShift,
                                           sizes[1], r.sourceIsSigned,
                                           <<TRUE, TRUE, TRUE>>)} :
                    /\ dstBuf' = out.dstMem
                    /\ dstPtr' = out.destination
                    /\ dstShift' = out.destinationBitShift
                    /\ srcPtr' = out.source
                    /\ srcShift' = out.sourceBitShift
                    /\ last' = CallRecord(r, out)
                    /\ hist' = Append(hist, [sourceBitSize |-> sizes[1],
                                             destinationBitSize |-> sizes[2],
                                             sourcePosition |-> SourcePosition,
                                             destinationPosition |-> DestinationPosition,
                                             ret |-> out.ret])
    /\ UNCHANGED <<threads, accesses, sh, unit, srcBuf, req, got>>

NextSeq == BitSetToBitSetStep

SpecSeq == InitSeq /\ [][NextSeq]_vars

(***************************************************************************)
(* Packing integers into a buffer with IntegerToBitSet, then extracting    *)
(* them with BitSetToInteger.  The buffer is dstBuf; <<dstPtr, dstShift>>  *)
(* is the packing cursor and <<srcPtr, srcShift>> the extracting cursor.   *)
(* hist holds one record per field packed, got one per field extracted.    *)
(***************************************************************************)
IntegerType(bits, signed) == [bits |-> bits, signed |-> signed, double |-> FALSE]

Field(type, value, size, signed) ==
    [type |-> type, value |-> value, size |-> size, signed |-> signed]

\* The fields of the sequences: -3 in 3 signed bits, 21 in 5 unsigned bits,
\* -200 in 5 signed bits, -2^40 in 64 signed bits, 0x8001 in 13 signed bits.
SequenceFields ==
    {Field(IntegerType(8, TRUE), FromNat(8, 253), 3, TRUE),
     Field(IntegerType(8, FALSE), FromNat(8, 21), 5, FALSE),
     Field(IntegerType(16, TRUE), FromNat(16, 65336), 5, TRUE),
     Field(IntegerType(64, TRUE), HighRun(64, 40), 64, TRUE),
     Field(IntegerType(16, FALSE), FromNat(16, 32769), 13, TRUE)}

\* The signed native types a value of w bits is kept in: the narrowest, and
\* at some widths int64 too.
SignedTypesFor(w) ==
    {IntegerType(b, TRUE) : b \in
        {IF w <= 8 THEN 8 ELSE IF w <= 16 THEN 16 ELSE IF w <= 32 THEN 32 ELSE 64}
        \cup (IF w \in {1, 7, 8, 33} THEN {64} ELSE {})}

\* The w-bit patterns of the round trips: the least and the greatest value,
\* -1, 0, 0101..., and every pattern of up to SmallBits bits.
RoundPatterns(w) ==
    {OneBit(w, w - 1), LowRun(w, w - 1), AllOnes(w), Zero(w), Alternating(w)}
    \cup (IF w <= SmallBits THEN {FromNat(w, n) : n \in 0..(2 ^ w - 1)} ELSE {})

\* x read as two's complement, at n bits.
SignExtended(x, n) == Tuple([i \in 1..n |-> IF i <= Len(x) THEN x[i] ELSE x[Len(x)]])

RoundFields ==
    UNION {{Field(t, SignExtended(x, t.bits), w, TRUE) :
               t \in SignedTypesFor(w), x \in RoundPatterns(w)} : w \in 1..64}

PackIdle ==
    /\ srcBuf = <<>>
    /\ srcPtr = 0
    /\ dstPtr = 0
    /\ CodecIdle

\* Sequences of up to MaxCalls fields from bit 0 of the buffer.
InitPack ==
    /\ unit \in Units
    /\ dstBuf \in {FilledBuffer(0), FilledBuffer(165)}
    /\ srcShift = 0
    /\ dstShift = 0
    /\ req = [op |-> "pack", fields |-> "sequence", limit |-> MaxCalls, offset |-> 0]
    /\ PackIdle

\* One field at bit offset 0..7 of a zeroed buffer.
InitRound ==
    /\ unit \in {8, 32, 128}
    /\ dstBuf = FilledBuffer(0)
    /\ \E k \in 0..7 :
         /\ srcShift = k
         /\ dstShift = k
         /\ req = [op |-> "pack", fields |-> "round", limit |-> 1, offset |-> k]
    /\ PackIdle

IntegerToBitSetCall ==
    /\ req.op = "pack"
    /\ got = <<>>
    /\ Len(hist) < req.limit
    /\ \E f \in IF req.fields = "round" THEN RoundFields ELSE SequenceFields :
         /\ DestinationPosition + f.size + 128 <= 8 * MemBytes
         /\ \E out \in {IntegerToBitSet(unit, dstBuf, dstPtr, dstShift, f.size, f.signed,
                                        f.type, f.value, <<TRUE, TRUE, TRUE>>)} :
              /\ dstBuf' = out.dstMem
              /\ dstPtr' = out.destination
              /\ dstShift' = out.destinationBitShift
              /\ hist' = Append(hist, [type |-> f.type, value |-> f.value, size |-> f.size,
                                       signed |-> f.signed,
                                       position |-> DestinationPosition,
                                       ret |-> out.ret])
    /\ UNCHANGED <<threads, accesses, sh, unit, srcBuf, srcPtr, srcShift, req, last, got>>

\* Extracts the next field into a variable of the type it was packed from,
\* every bit of which is wrong before the call.
BitSetToIntegerCall ==
    /\ req.op = "pack"
    /\ Len(got) < Len(hist)
    /\ LET f == hist[Len(got) + 1]
       IN  \E dest \in {BvNot(f.value)} :
             \E out \in {BitSetToInteger(unit, f.type, dest, dstBuf, srcPtr, srcShift,
                                         f.size, f.signed, <<TRUE, TRUE, TRUE>>)} :
               /\ srcPtr' = out.source
               /\ srcShift' = out.sourceBitShift
               /\ got' = Append(got, [ret |-> out.ret, value |-> IntegerAt(f.type, out.dstMem),
                                      position |-> SourcePosition])
    /\ UNCHANGED <<threads, accesses, sh, unit, srcBuf, dstBuf, dstPtr, dstShift, req, last, hist>>

NextPack == IntegerToBitSetCall \/ BitSetToIntegerCall

SpecPack == InitPack /\ [][NextPack]_vars

SpecRound == InitRound /\ [][NextPack]_vars

(***************************************************************************)
(* What the checks of the codec read from a call.                          *)
(***************************************************************************)
CallDone == last.op = "BitSetToBitSet"

\* The call kept to what the language defines: no copy ran past a scratch
\* value.
Defined == CallDone /\ ~last.undefined

\* The call returned true.
ReturnedTrue == Defined /\ last.ret

\* The call returned true, or nothing says what it returned.
MayHaveReturnedTrue == CallDone /\ (IF last.undefined THEN TRUE ELSE last.ret)

\* The call was made with sizes the interface documents: 1..128.
InContract ==
    /\ CallDone
    /\ last.sourceBitSize \in 1..128
    /\ last.destinationBitSize \in 1..128

SourceField ==
    FieldBits(srcBuf, last.source, last.normSourceBitShift, last.sourceBitSize)

DestinationField ==
    FieldBits(dstBuf, last.destination, last.normDestinationBitShift, last.destinationBitSize)

SourceBitEnd == last.normSourceBitShift + last.sourceBitSize

DestinationBitEnd == last.normDestinationBitShift + last.destinationBitSize

\* Bits lo..hi (from 0) of x are all b.
AllBits(x, lo, hi, b) == \A i \in lo..hi : i < Len(x) => x[i + 1] = b

\* x at d bits, extended with the bit fill when d > Len(x).
Resized(x, d, fill) == Tuple([i \in 1..d |-> IF i <= Len(x) THEN x[i] ELSE fill])

\* The d-bit pattern of the value of the field s clamped to the domain of a
\* d-bit destination.
ClampedField(s, sSigned, d, dSigned) ==
    LET a == Len(s)
    IN  IF sSigned /\ s[a] = 1
        THEN IF ~dSigned THEN Zero(d)
             ELSE IF AllBits(s, d - 1, a - 1, 1) THEN Resized(s, d, 1)
             ELSE OneBit(d, d - 1)
        ELSE LET m == IF dSigned THEN d - 1 ELSE d
             IN  IF AllBits(s, m, a - 1, 0) THEN Resized(s, d, 0)
                 ELSE LowRun(d, m)

Clamp(v, lo, hi) == IF v < lo THEN lo ELSE IF v > hi THEN hi ELSE v

ClampedValue(v, d, dSigned) ==
    IF dSigned THEN Clamp(v, -(2 ^ (d - 1)), 2 ^ (d - 1) - 1)
    ELSE Clamp(v, 0, 2 ^ d - 1)

(***************************************************************************)
(* C1: after a BitSetToBitSet call with sizes in 1..128 that returns true, *)
(* the destination field, read with the destination's signedness, holds    *)
(* the value of the source field, read with the source's signedness,       *)
(* clamped to the destination's domain: bit for bit at every size, and as  *)
(* numbers at the sizes of up to NumericBits bits.                         *)
(***************************************************************************)
C1_FieldIsClampedValue ==
    (InContract /\ last.ret) =>
        /\ DestinationField = ClampedField(SourceField, last.sourceIsSigned,
                                           last.destinationBitSize, last.destinationIsSigned)
        /\ (last.sourceBitSize <= NumericBits /\ last.destinationBitSize <= NumericBits) =>
               ValueOf(DestinationField, last.destinationIsSigned)
                   = ClampedValue(ValueOf(SourceField, last.sourceIsSigned),
                                  last.destinationBitSize, last.destinationIsSigned)

\* The negative 4-bit value -3 packed into a signed 16-bit field is -3.
C1_Witness ==
    /\ InContract /\ last.ret
    /\ last.sourceBitSize = 4 /\ last.sourceIsSigned
    /\ last.destinationBitSize = 16 /\ last.destinationIsSigned
    /\ SourceField = <<1, 0, 1, 1>>
    /\ ValueOf(DestinationField, TRUE) = -3

(***************************************************************************)
(* C2: after a BitSetToBitSet call with sizes in 1..128 that returns true, *)
(* every bit of the destination buffer outside the bits                    *)
(* [destinationBitShift, destinationBitShift + destinationBitSize) of the  *)
(* destination has the value it had before the call.                       *)
(***************************************************************************)
C2_FrameIsPreserved ==
    (InContract /\ last.ret) =>
        LET first == 8 * last.destination + last.normDestinationBitShift
            end == first + last.destinationBitSize
        IN  \A a \in 0..(MemBytes - 1) :
                IF 8 * a + 8 <= first \/ 8 * a >= end
                THEN dstBuf[a + 1] = last.preDstBuf[a + 1]
                ELSE \A b \in (8 * a)..(8 * a + 7) :
                         (b < first \/ b >= end) => MemBit(dstBuf, b) = MemBit(last.preDstBuf, b)

(***************************************************************************)
(* C3: a signed value v of w bits, w in 1..64, packed by IntegerToBitSet   *)
(* into a zeroed buffer at bit offset k in 0..7 as a signed field of w     *)
(* bits and extracted by BitSetToInteger from offset k as a signed field   *)
(* of w bits into a signed integer of at least w bits, comes back as v;    *)
(* both calls return true.                                                 *)
(***************************************************************************)
C3_RoundTrip ==
    (req.op = "pack" /\ req.fields = "round") =>
        /\ \A i \in 1..Len(hist) : hist[i].ret /\ hist[i].position = req.offset
        /\ \A i \in 1..Len(got) :
               /\ got[i].ret
               /\ got[i].position = req.offset
               /\ got[i].value = hist[i].value
               /\ hist[i].type.bits <= NumericBits =>
                      SignedValue(got[i].value) = SignedValue(hist[i].value)

\* -2^63 packed at bit 7 of a buffer of bytes comes back as -2^63.
C3_Witness ==
    /\ req.op = "pack" /\ req.fields = "round" /\ req.offset = 7 /\ unit = 8
    /\ Len(got) = 1 /\ got[1].ret
    /\ hist[1].size = 64 /\ hist[1].value = OneBit(64, 63)
    /\ got[1].value = OneBit(64, 63)

RECURSIVE SumOfSizes(_, _, _)
SumOfSizes(calls, n, source) ==
    IF n = 0 THEN 0
    ELSE SumOfSizes(calls, n - 1, source)
         + (IF source THEN calls[n].sourceBitSize ELSE calls[n].destinationBitSize)

(***************************************************************************)
(* C4: in a sequence of BitSetToBitSet calls with sizes in 1..128 that     *)
(* share the cursors, each call leaves each cursor (8 x byte address +     *)
(* shift) at its position before the call plus the size of its field, the  *)
(* shift itself being the normalised shift plus the size, and so after n   *)
(* calls at its first position plus the sum of the n sizes.                *)
(***************************************************************************)
C4_CursorsAdvanceBySize ==
    (req.op = "sequence" /\ Len(hist) > 0) =>
        LET n == Len(hist)
        IN  /\ SourcePosition = hist[n].sourcePosition + hist[n].sourceBitSize
            /\ DestinationPosition = hist[n].destinationPosition + hist[n].destinationBitSize
            /\ srcShift = last.normSourceBitShift + hist[n].sourceBitSize
            /\ dstShift = last.normDestinationBitShift + hist[n].destinationBitSize
            /\ SourcePosition = req.sourceStart + SumOfSizes(hist, n, TRUE)
            /\ DestinationPosition = req.destinationStart + SumOfSizes(hist, n, FALSE)

\* Three calls made, the second from a shift past the unit, the last one of
\* 128 bits: the shift ends above 128.
C4_Witness ==
    /\ req.op = "sequence" /\ Len(hist) = 3
    /\ hist[2].sourcePosition >= unit
    /\ hist[3].sourceBitSize = 128
    /\ srcShift > 128
    /\ SourcePosition = req.sourceStart + SumOfSizes(hist, 3, TRUE)

\* The bits of the field that IntegerToBitSet packs from f.
PackedField(f) == ClampedField(f.value, f.type.signed, f.size, f.signed)

RECURSIVE SumOfFields(_, _)
SumOfFields(fields, n) == IF n = 0 THEN 0 ELSE SumOfFields(fields, n - 1) + fields[n].size

\* The value BitSetToInteger returns for the packed field f.
ExtractedField(f) ==
    ClampedField(PackedField(f), f.signed, f.type.bits, f.type.signed)

FieldFits(i) == (hist[i].position % unit) + hist[i].size <= 128

C6_OverflowFailsUntouched ==
    (CallDone /\ (SourceBitEnd > 128 \/ DestinationBitEnd > 128)) =>
        /\ Defined
        /\ ~last.ret
        /\ last.srcRead = 0 /\ last.dstRead = 0 /\ last.dstWritten = 0
        /\ dstBuf = last.preDstBuf
        /\ srcShift = SourceBitEnd
        /\ dstShift = DestinationBitEnd

(***************************************************************************)
(* C7: a call with sizes in 1..128 runs the core routine at the smallest   *)
(* G of 8, 16, 32, 64, 128 that is at least the storage unit's width and   *)
(* at least both normalised shift + size sums, and at no other; it runs it *)
(* at none, and returns false, when there is no such G.                    *)
(***************************************************************************)
FittingGranularities ==
    {G \in Units : G >= unit /\ SourceBitEnd <= G /\ DestinationBitEnd <= G}

C7_SmallestGranularity ==
    InContract =>
        IF FittingGranularities = {}
        THEN ~last.ret /\ last.granularity = 0 /\ last.dstWritten = 0 /\ last.srcRead = 0
        ELSE /\ last.ret
             /\ last.granularity \in FittingGranularities
             /\ \A G \in FittingGranularities : last.granularity <= G
             /\ 8 * last.dstWritten <= last.granularity
             /\ 8 * last.srcRead <= last.granularity

\* A 16-bit unit whose source range ends at bit 17 is handled at 32 bits.
C7_Witness ==
    /\ InContract
    /\ unit = 16 /\ SourceBitEnd = 17 /\ DestinationBitEnd <= 16
    /\ last.granularity = 32 /\ last.ret

(***************************************************************************)
(* C8: for every integer type, every value and every shift from the type's *)
(* width up to 255, each of the four safe shifts returns 0, also for a     *)
(* negative operand of the mathematical right shift.                       *)
(***************************************************************************)
C8_ShiftBeyondWidthIsZero ==
    (ShiftDone /\ sh.shift >= sh.type.bits) => sh.out = Zero(sh.type.bits)

C8_Witness ==
    /\ sh.op = "MathematicRightSafeShift"
    /\ sh.type.signed
    /\ sh.number[sh.type.bits] = 1
    /\ sh.shift = sh.type.bits
    /\ sh.out = Zero(sh.type.bits)

(***************************************************************************)
(* C9: for a native type and a shift below its width, the logical right    *)
(* safe shift is the shift of the operand read as unsigned (the top s bits *)
(* are zero, also for a negative operand), and the mathematical right safe *)
(* shift is floor(x / 2^s) for a signed operand (the top s bits copy the   *)
(* sign bit) and the unsigned shift for an unsigned one.                   *)
(***************************************************************************)
C9_RightShiftInRange ==
    (ShiftDone /\ ~sh.type.double /\ sh.shift < sh.type.bits) =>
        LET w == sh.type.bits
            s == sh.shift
            fill == IF sh.op = "MathematicRightSafeShift" /\ sh.type.signed
                    THEN sh.number[w] ELSE 0
        IN  /\ sh.op \in {"LogicalRightSafeShift", "MathematicRightSafeShift"} =>
                  \A i \in 1..w : sh.out[i] = IF i + s <= w THEN sh.number[i + s] ELSE fill
            /\ (sh.op = "LogicalRightSafeShift" /\ w <= NumericBits) =>
                  UnsignedValue(sh.out) = UnsignedValue(sh.number) \div 2 ^ s
            /\ (sh.op = "MathematicRightSafeShift" /\ w <= NumericBits) =>
                  ValueOf(sh.out, sh.type.signed) = ValueOf(sh.number, sh.type.signed) \div 2 ^ s

C9_Witness ==
    /\ sh.op = "LogicalRightSafeShift"
    /\ ~sh.type.double
    /\ sh.type.signed
    /\ sh.type.bits = 8
    /\ sh.number[8] = 1
    /\ sh.shift = 3
    /\ sh.out[8] = 0

(***************************************************************************)
(* C10: the logical right shift of a DoubleInteger with a signed half type *)
(* by 0 < shift < halfWidth: the new lower half is (old lower shifted      *)
(* right with zero fill) OR (old upper shifted left by halfWidth - shift), *)
(* the new upper half is old upper shifted right with zero fill, also when *)
(* old lower or old upper is negative.                                     *)
(***************************************************************************)
C10_DoubleShiftWithinHalf ==
    (/\ sh.op = "LogicalRightSafeShift"
     /\ sh.type.double
     /\ sh.type.signed
     /\ sh.shift > 0
     /\ sh.shift < HalfBits(sh.type)) =>
        LET h == HalfBits(sh.type)
            lower == GetLower(sh.number)
            upper == GetUpper(sh.number)
        IN  /\ GetLower(sh.out) = BvOr(BvShr(lower, sh.shift), BvShl(upper, h - sh.shift))
            /\ GetUpper(sh.out) = BvShr(upper, sh.shift)

(***************************************************************************)
(* C11: the logical right shift of a DoubleInteger with a signed half type *)
(* by the bits of a half or more, and fewer than the bits of the whole,    *)
(* gives for lower half the old upper half shifted right by shift - half   *)
(* bits with zero fill, and for upper half all ones when the old upper     *)
(* half was negative and zero otherwise.                                   *)
(***************************************************************************)
C11_DoubleShiftBeyondHalf ==
    (/\ sh.op = "LogicalRightSafeShift"
     /\ sh.type.double
     /\ sh.type.signed
     /\ sh.shift >= HalfBits(sh.type)
     /\ sh.shift < 2 * HalfBits(sh.type)) =>
        LET h == HalfBits(sh.type)
            upper == GetUpper(sh.number)
        IN  /\ GetLower(sh.out) = BvShr(upper, sh.shift - h)
            /\ GetUpper(sh.out) = IF upper[h] = 1 THEN AllOnes(h) ELSE Zero(h)

(***************************************************************************)
(* C12: a call with sizes in 1..128 returns true exactly when a            *)
(* granularity fits its bit ranges, whichever of its copies fail; it       *)
(* reports one error per failed copy and none when no granularity fits;    *)
(* and when the copy of the source is the one that fails, the call reports *)
(* one error, returns true and leaves the destination field at 0.          *)
(***************************************************************************)
FailedCopies == Cardinality({k \in 1..3 : ~hist[1][k]})

C12_CopyFailureContinues ==
    (InContract /\ Len(hist) = 1) =>
        /\ last.ret = (FittingGranularities # {})
        /\ last.reports = IF last.ret THEN FailedCopies ELSE 0
        /\ (last.ret /\ hist[1] = <<FALSE, TRUE, TRUE>>) =>
               /\ last.reports = 1
               /\ DestinationField = Zero(last.destinationBitSize)

\* The source copy alone failed in a call on a destination of ones: the
\* call returned true and the field is 0.
C12_Witness ==
    /\ InContract /\ Len(hist) = 1 /\ hist[1] = <<FALSE, TRUE, TRUE>>
    /\ last.ret /\ last.reports = 1
    /\ last.preDstBuf = FilledBuffer(255)
    /\ last.destinationBitSize = 7
    /\ DestinationField = Zero(7)
    /\ dstBuf # last.preDstBuf


(***************************************************************************)
(* BSToBS one memory access at a time, for calls that run concurrently.    *)
(* Each of the three MemoryOperationsHelper::Copy calls is one step; the   *)
(* locals sourceCopy and destinationCopy live between the steps.           *)
(***************************************************************************)
\* Lines 179-270: the source is copied into the scratch, then shifted,
\* masked, saturated or sign-extended and moved to the destination position.
BSToBSReadSource(W, destinationBitShift, destinationBitSize, destinationIsSigned, srcMem, srcAddr, sourceBitShift, sourceBitSize, sourceIsSigned) ==
    LET t == UnitType(W)
        dataSize == ToUint8(W)
        sourceMask == LogicalRightSafeShift(t, AllOnes(W), ToUint8(dataSize - sourceBitSize))
        destinationMask == LogicalRightSafeShift(t, AllOnes(W), ToUint8(dataSize - destinationBitSize))
        sourceSignMask == LogicalLeftSafeShift(t, One(W), ToUint8(sourceBitSize - 1))
        destinationSignMask == LogicalLeftSafeShift(t, One(W), ToUint8(destinationBitSize - 1))
        sourceByteSize == ((sourceBitSize + sourceBitShift) + 7) \div 8
        sourceCopy0 == CopyIn(W, srcMem, srcAddr, sourceByteSize)
        sourceCopy1 == BvAnd(LogicalRightSafeShift(t, sourceCopy0, sourceBitShift), sourceMask)
        sourceIsNegative == sourceIsSigned /\ ~IsZero(BvAnd(sourceCopy1, sourceSignMask))
        sourceCopy2 == BSToBSValue(t, W, sourceCopy1, sourceMask, destinationMask,
                                   destinationSignMask, sourceIsNegative, destinationIsSigned,
                                   sourceBitSize, destinationBitSize)
    IN  [sourceCopy |-> LogicalLeftSafeShift(t, sourceCopy2, destinationBitShift),
         bytes |-> sourceByteSize]

\* Lines 277-285: the destination bytes are copied into destinationCopy.
BSToBSReadDestination(W, dstMem, dstAddr, destinationBitShift, destinationBitSize) ==
    LET destinationByteSize == ((destinationBitSize + destinationBitShift) + 7) \div 8
    IN  [destinationCopy |-> CopyIn(W, dstMem, dstAddr, destinationByteSize),
         bytes |-> destinationByteSize]

\* BSToBSWriteDestination copying the whole scratch value back.
BSToBSWriteDestinationWhole(W, dstMem, dstAddr, destinationBitShift, destinationBitSize, sourceCopy, destinationCopy) ==
    LET t == UnitType(W)
        dataSize == ToUint8(W)
        destinationMask == LogicalRightSafeShift(t, AllOnes(W), ToUint8(dataSize - destinationBitSize))
        destinationMask1 == BvNot(LogicalLeftSafeShift(t, destinationMask, destinationBitShift))
        destinationByteSize == W \div 8
    IN  [dstMem |-> CopyOut(dstMem, dstAddr, BvOr(sourceCopy, BvAnd(destinationMask1, destinationCopy)),
                            destinationByteSize),
         bytes |-> destinationByteSize]

\* BSToBSWriteDestination merging the destination bytes as they are when the
\* copy back is made, not as they were copied into destinationCopy.
BSToBSWriteDestinationFresh(W, dstMem, dstAddr, destinationBitShift, destinationBitSize, sourceCopy, destinationCopy) ==
    LET t == UnitType(W)
        dataSize == ToUint8(W)
        destinationMask == LogicalRightSafeShift(t, AllOnes(W), ToUint8(dataSize - destinationBitSize))
        destinationMask1 == BvNot(LogicalLeftSafeShift(t, destinationMask, destinationBitShift))
        destinationByteSize == ((destinationBitSize + destinationBitShift) + 7) \div 8
    IN  [dstMem |-> CopyOut(dstMem, dstAddr,
                            BvOr(sourceCopy, BvAnd(destinationMask1,
                                                   CopyIn(W, dstMem, dstAddr, destinationByteSize))),
                            destinationByteSize),
         bytes |-> destinationByteSize]

\* Lines 272-274 and 286-293: the bits of destinationCopy outside the field
\* are merged into sourceCopy, which is copied over the destination bytes.
BSToBSWriteDestination(W, dstMem, dstAddr, destinationBitShift, destinationBitSize, sourceCopy, destinationCopy) ==
    LET t == UnitType(W)
        dataSize == ToUint8(W)
        destinationMask == LogicalRightSafeShift(t, AllOnes(W), ToUint8(dataSize - destinationBitSize))
        destinationMask1 == BvNot(LogicalLeftSafeShift(t, destinationMask, destinationBitShift))
        destinationByteSize == ((destinationBitSize + destinationBitShift) + 7) \div 8
    IN  [dstMem |-> CopyOut(dstMem, dstAddr, BvOr(sourceCopy, BvAnd(destinationMask1, destinationCopy)),
                            destinationByteSize),
         bytes |-> destinationByteSize]

\* The order in which BSToBS makes its three copies.
BSToBSOrderWriteFirst == <<"readSource", "writeDestination", "readDestination">>

BSToBSOrder == <<"readSource", "readDestination", "writeDestination">>

\* The position of a call after the step at position pc.
StepAfter(pc) ==
    IF pc = BSToBSOrder[1] THEN BSToBSOrder[2]
    ELSE IF pc = BSToBSOrder[2] THEN BSToBSOrder[3]
    ELSE "done"


(***************************************************************************)
(* Two BitSetToBitSet calls that run concurrently on the buffers.  Each    *)
(* call has its own cursors and locals; srcBuf and dstBuf are shared.  A   *)
(* call takes one step per memory access of BSToBS.  req keeps the calls   *)
(* as they were made and the destination buffer before them.               *)
(***************************************************************************)
Call(destinationBitShift, destinationBitSize, destinationIsSigned, source, sourceBitShift, sourceBitSize, sourceIsSigned) ==
    [destination |-> 0, destinationBitShift |-> destinationBitShift,
     destinationBitSize |-> destinationBitSize, destinationIsSigned |-> destinationIsSigned,
     source |-> source, sourceBitShift |-> sourceBitShift,
     sourceBitSize |-> sourceBitSize, sourceIsSigned |-> sourceIsSigned]

\* Fields of the first three destination bytes, two of them per byte, one
\* across two bytes, and a far one that no granularity holds.
ConcurrentCalls ==
    { Call(0, 3, FALSE, 0, 4, 8, FALSE),
      Call(3, 5, TRUE, 1, 0, 8, TRUE),
      Call(8, 8, FALSE, 2, 4, 8, FALSE),
      Call(12, 7, TRUE, 5, 0, 8, TRUE),
      Call(204, 128, FALSE, 0, 0, 8, FALSE),
      Call(16, 4, TRUE, 40, 0, 8, TRUE),
      Call(20, 4, FALSE, 3, 0, 4, FALSE) }

Thread(c) ==
    [destination |-> c.destination, destinationBitShift |-> c.destinationBitShift,
     destinationBitSize |-> c.destinationBitSize, destinationIsSigned |-> c.destinationIsSigned,
     source |-> c.source, sourceBitShift |-> c.sourceBitShift,
     sourceBitSize |-> c.sourceBitSize, sourceIsSigned |-> c.sourceIsSigned,
     pc |-> "call", granularity |-> 0, ret |-> TRUE,
     sourceCopy |-> <<>>, destinationCopy |-> <<>>]

InitConc ==
    /\ unit \in {8, 16}
    /\ srcBuf = MixedBuffer
    /\ dstBuf \in {FilledBuffer(0), FilledBuffer(165)}
    /\ srcPtr = 0 /\ srcShift = 0 /\ dstPtr = 0 /\ dstShift = 0
    /\ \E a \in ConcurrentCalls, b \in ConcurrentCalls :
         /\ threads = <<Thread(a), Thread(b)>>
         /\ req = [op |-> "concurrent", calls |-> <<a, b>>, dstBuf |-> dstBuf]
    /\ sh = NoShift /\ last = NoCall /\ hist = <<>> /\ got = <<>>
    /\ accesses = <<>>

Access(i, kind, address, bytes) == [thread |-> i, kind |-> kind, address |-> address, bytes |-> bytes]

ConcUnchanged == UNCHANGED <<sh, unit, srcBuf, srcPtr, srcShift, dstPtr, dstShift, req, last, hist, got>>

\* Lines 307-390: normalisation and the choice of the granularity; a call
\* that no granularity holds advances its shifts and returns false.
Enter(i) ==
    /\ threads[i].pc = "call"
    /\ LET c == threads[i]
           source1 == NormalizedPointer(unit, c.source, c.sourceBitShift)
           sourceBitShift1 == NormalizedShift(unit, c.sourceBitShift)
           destination1 == NormalizedPointer(unit, c.destination, c.destinationBitShift)
           destinationBitShift1 == NormalizedShift(unit, c.destinationBitShift)
           G == SelectGranularity(ToUint8(unit), ToUint8(sourceBitShift1 + c.sourceBitSize),
                                  ToUint8(destinationBitShift1 + c.destinationBitSize))
       IN  threads' = [threads EXCEPT ![i] =
                [c EXCEPT !.source = source1, !.destination = destination1,
                          !.sourceBitShift = IF G # 0 THEN sourceBitShift1
                                             ELSE ToUint8(sourceBitShift1 + c.sourceBitSize),
                          !.destinationBitShift = IF G # 0 THEN destinationBitShift1
                                                  ELSE ToUint8(destinationBitShift1 + c.destinationBitSize),
                          !.granularity = G,
                          !.ret = (G # 0),
                          !.pc = IF G # 0 THEN BSToBSOrder[1] ELSE "done"]]
    /\ UNCHANGED <<dstBuf, accesses>>
    /\ ConcUnchanged

\* A call after one copy of BSToBS: at its next copy, or, after the last
\* one, back in BitSetToBitSet, which advances the shifts (lines 392-393)
\* and returns.
Stepped(c) ==
    IF StepAfter(c.pc) = "done"
    THEN [c EXCEPT !.pc = "done",
                   !.sourceBitShift = ToUint8(c.sourceBitShift + c.sourceBitSize),
                   !.destinationBitShift = ToUint8(c.destinationBitShift + c.destinationBitSize)]
    ELSE [c EXCEPT !.pc = StepAfter(c.pc)]

ReadSource(i) ==
    /\ threads[i].pc = "readSource"
    /\ LET c == threads[i] IN
       \E out \in {BSToBSReadSource(c.granularity, c.destinationBitShift, c.destinationBitSize,
                                    c.destinationIsSigned, srcBuf, c.source, c.sourceBitShift,
                                    c.sourceBitSize, c.sourceIsSigned)} :
         /\ threads' = [threads EXCEPT ![i] =
                Stepped([c EXCEPT !.sourceCopy = out.sourceCopy])]
         /\ accesses' = Append(accesses, Access(i, "readSource", c.source, out.bytes))
    /\ UNCHANGED dstBuf
    /\ ConcUnchanged

ReadDestination(i) ==
    /\ threads[i].pc = "readDestination"
    /\ LET c == threads[i] IN
       \E out \in {BSToBSReadDestination(c.granularity, dstBuf, c.destination,
                                         c.destinationBitShift, c.destinationBitSize)} :
         /\ threads' = [threads EXCEPT ![i] =
                Stepped([c EXCEPT !.destinationCopy = out.destinationCopy])]
         /\ accesses' = Append(accesses, Access(i, "readDestination", c.destination, out.bytes))
    /\ UNCHANGED dstBuf
    /\ ConcUnchanged

\* The locals of a call before the copy that fills them: zero (lines 202, 277).
Local(c, copy) == IF copy = <<>> THEN Zero(c.granularity) ELSE copy

\* The copy back to the destination.
WriteDestination(i) ==
    /\ threads[i].pc = "writeDestination"
    /\ LET c == threads[i] IN
       \E out \in {BSToBSWriteDestination(c.granularity, dstBuf, c.destination,
                                          c.destinationBitShift, c.destinationBitSize,
                                          Local(c, c.sourceCopy), Local(c, c.destinationCopy))} :
         /\ dstBuf' = out.dstMem
         /\ threads' = [threads EXCEPT ![i] = Stepped(c)]
         /\ accesses' = Append(accesses, Access(i, "writeDestination", c.destination, out.bytes))
    /\ ConcUnchanged

NextConc ==
    \E i \in 1..2 : Enter(i) \/ ReadSource(i) \/ ReadDestination(i) \/ WriteDestination(i)

SpecConc == InitConc /\ [][NextConc]_vars


(***************************************************************************)
(* Concurrent calls: what they are compared with.                          *)
(***************************************************************************)
AllDone == Len(threads) = 2 /\ \A i \in 1..2 : threads[i].pc = "done"

\* The destination bytes of a call: the first ceil((shift + size) / 8) bytes
\* at its normalised destination.
ByteSpan(c) ==
    LET first == NormalizedPointer(unit, c.destination, c.destinationBitShift)
        shift == NormalizedShift(unit, c.destinationBitShift)
    IN  first .. (first + (shift + c.destinationBitSize + 7) \div 8 - 1)

\* The destination bits of a call, as absolute bit numbers of dstBuf.
BitSpan(c) ==
    (8 * c.destination + c.destinationBitShift) ..
        (8 * c.destination + c.destinationBitShift + c.destinationBitSize - 1)

\* The call c made alone on the destination buffer mem.
RunAlone(mem, c) ==
    BitSetToBitSet(unit, mem, c.destination, c.destinationBitShift, c.destinationBitSize,
                   c.destinationIsSigned, srcBuf, c.source, c.sourceBitShift, c.sourceBitSize,
                   c.sourceIsSigned, <<TRUE, TRUE, TRUE>>)

OneAfterTheOther(first, second) == RunAlone(RunAlone(req.dstBuf, first).dstMem, second)

\* What a finished concurrent call hands back is what the call made alone
\* hands back.
ReturnsAs(i, out) ==
    /\ threads[i].ret = out.ret
    /\ threads[i].destination = out.destination
    /\ threads[i].destinationBitShift = out.destinationBitShift
    /\ threads[i].source = out.source
    /\ threads[i].sourceBitShift = out.sourceBitShift

\* C13: two concurrent calls whose destination byte spans are disjoint (the
\* source buffer is written by neither) leave the destination buffer, and
\* hand back the cursors and result, as the two calls made one after the
\* other do, in either order and in every interleaving of their accesses.
C13_DisjointSpansAreSequential ==
    (AllDone /\ ByteSpan(req.calls[1]) \cap ByteSpan(req.calls[2]) = {}) =>
        /\ dstBuf = OneAfterTheOther(req.calls[1], req.calls[2]).dstMem
        /\ dstBuf = OneAfterTheOther(req.calls[2], req.calls[1]).dstMem
        /\ ReturnsAs(1, RunAlone(req.dstBuf, req.calls[1]))
        /\ ReturnsAs(2, RunAlone(req.dstBuf, req.calls[2]))

\* Two calls on neighbouring bytes, the second one reading and writing its
\* destination between the destination read and the write of the first.
C13_Witness ==
    /\ AllDone
    /\ ByteSpan(req.calls[1]) = {0} /\ ByteSpan(req.calls[2]) = {1}
    /\ threads[1].granularity = 16
    /\ [k \in 1..Len(accesses) |-> accesses[k].thread] = <<1, 1, 2, 2, 2, 1>>
    /\ dstBuf[1] # req.dstBuf[1] /\ dstBuf[2] # req.dstBuf[2]


\* The positions in accesses of the accesses of one kind.
AccessesOf(kind) == {k \in 1..Len(accesses) : accesses[k].kind = kind}

\* Both calls copied the destination before either copied back.
ReadsBeforeWrites ==
    /\ Cardinality(AccessesOf("readDestination")) = 2
    /\ Cardinality(AccessesOf("writeDestination")) = 2
    /\ \A r \in AccessesOf("readDestination"), w \in AccessesOf("writeDestination") : r < w

\* The call that copied back first, and the one that copied back last.
FirstWriter == accesses[CHOOSE w \in AccessesOf("writeDestination") :
                            \A v \in AccessesOf("writeDestination") : w <= v].thread

LastWriter == accesses[CHOOSE w \in AccessesOf("writeDestination") :
                           \A v \in AccessesOf("writeDestination") : w >= v].thread

\* The destination field of call c in the buffer mem, low bit first.
FieldOf(mem, c) ==
    Tuple([k \in 1..c.destinationBitSize |->
              MemBit(mem, 8 * c.destination + c.destinationBitShift + k - 1)])

\* Two calls on different fields of one destination byte.
SameByteFields ==
    /\ ByteSpan(req.calls[1]) = ByteSpan(req.calls[2])
    /\ Cardinality(ByteSpan(req.calls[1])) = 1
    /\ BitSpan(req.calls[1]) \cap BitSpan(req.calls[2]) = {}

\* C14: the destination update is a read-merge-write that is not atomic.
\* When two concurrent calls on different fields of the same destination byte
\* both copy the destination before either copies back, the update of the
\* call that copies back first is lost: the buffer ends as the last writer
\* alone leaves it, and the first writer's field holds its value of before
\* the calls (the last writer's source being unsigned, so that its value has
\* no bits beyond its own field).
C14_LostUpdate ==
    (AllDone /\ SameByteFields /\ ReadsBeforeWrites) =>
        /\ dstBuf = RunAlone(req.dstBuf, req.calls[LastWriter]).dstMem
        /\ ~req.calls[LastWriter].sourceIsSigned =>
               FieldOf(dstBuf, req.calls[FirstWriter]) = FieldOf(req.dstBuf, req.calls[FirstWriter])

\* The first call alone would have set its field to 7; after the
\* interleaving the field is 0 as before the calls.
C14_Witness ==
    /\ AllDone /\ SameByteFields /\ ReadsBeforeWrites
    /\ FirstWriter = 1 /\ LastWriter = 2
    /\ threads[1].ret /\ threads[2].ret
    /\ req.dstBuf = FilledBuffer(0)
    /\ FieldOf(RunAlone(req.dstBuf, req.calls[1]).dstMem, req.calls[1]) = <<1, 1, 1>>
    /\ FieldOf(dstBuf, req.calls[1]) = <<0, 0, 0>>
    /\ FieldOf(dstBuf, req.calls[2]) # Zero(req.calls[2].destinationBitSize)


\* The accesses a call made, in the order it made them.
AccessesBy(i) == SelectSeq(accesses, LAMBDA a : a.thread = i)

\* The accesses BSToBS makes for call i: its normalised source span, then its
\* normalised destination span twice.
AccessesOfCall(i) ==
    LET c == req.calls[i]
        source1 == NormalizedPointer(unit, c.source, c.sourceBitShift)
        sourceBitShift1 == NormalizedShift(unit, c.sourceBitShift)
        destination1 == NormalizedPointer(unit, c.destination, c.destinationBitShift)
        destinationBitShift1 == NormalizedShift(unit, c.destinationBitShift)
        destinationBytes == (destinationBitShift1 + c.destinationBitSize + 7) \div 8
    IN  << Access(i, "readSource", source1, (sourceBitShift1 + c.sourceBitSize + 7) \div 8),
           Access(i, "readDestination", destination1, destinationBytes),
           Access(i, "writeDestination", destination1, destinationBytes) >>

\* C20: a call that selects a granularity reads the source span once, then
\* reads the destination span once, then writes the destination span once,
\* in that order: at every moment the accesses it has made are the first
\* ones of that sequence, all three once it has returned, and the write is
\* never made before both reads.  A call that returns false makes none.
C20_AccessOrder ==
    \A i \in 1..Len(threads) :
        LET made == AccessesBy(i) IN
        /\ Len(made) <= 3
        /\ made = SubSeq(AccessesOfCall(i), 1, Len(made))
        /\ threads[i].pc = "done" =>
               Len(made) = IF threads[i].ret THEN 3 ELSE 0

\* One call has returned true after its three accesses, made between those
\* of the other call, and the other call has returned false after none.
C20_Witness ==
    /\ AllDone
    /\ threads[1].ret /\ Len(AccessesBy(1)) = 3
    /\ ~threads[2].ret /\ Len(AccessesBy(2)) = 0
    /\ accesses[3].kind = "writeDestination"
    /\ dstBuf # req.dstBuf


(***************************************************************************)
(* The adapters against BitSetToBitSet.                                    *)
(***************************************************************************)
AllCopy == <<TRUE, TRUE, TRUE>>

\* The step is a call of IntegerToBitSet: it has packed one more field.
IntegerToBitSetStep == Len(hist') = Len(hist) + 1

\* The step is a call of BitSetToInteger: it has extracted one more field.
BitSetToIntegerStep == Len(got') = Len(got) + 1

\* What BitSetToBitSet does with the variable f.value of type f.type for its
\* source: source = its address, shift 0, size = the width of the type,
\* signed as the type is.
PackedByBitSetToBitSet(f) ==
    BitSetToBitSet(unit, dstBuf, dstPtr, dstShift, f.size, f.signed,
                   BytesOf(f.value), 0, 0, f.type.bits, f.type.signed, AllCopy)

\* What BitSetToBitSet does with a variable of type f.type holding dest for its
\* destination: destination = its address, shift 0, size = the width of the
\* type, signed as the type is.
ExtractedByBitSetToBitSet(f, dest) ==
    BitSetToBitSet(unit, BytesOf(dest), 0, 0, f.type.bits, f.type.signed,
                   dstBuf, srcPtr, srcShift, f.size, f.signed, AllCopy)

\* C15: every call of IntegerToBitSet returns what BitSetToBitSet returns with
\* the variable for its source (shift 0, size and signedness of its type),
\* leaves the buffer as it does, advances the destination cursor as it does
\* and leaves the caller's source cursor alone; every call of BitSetToInteger
\* returns what BitSetToBitSet returns with the variable for its destination,
\* leaves in the variable what it leaves there and advances the source cursor
\* as it does.
C15_AdaptersDelegate ==
    [][ /\ IntegerToBitSetStep =>
             \E f \in {hist'[Len(hist')]} :
               \E ref \in {PackedByBitSetToBitSet(f)} :
                 /\ f.ret = ref.ret
                 /\ dstBuf' = ref.dstMem
                 /\ dstPtr' = ref.destination /\ dstShift' = ref.destinationBitShift
                 /\ srcPtr' = srcPtr /\ srcShift' = srcShift
        /\ BitSetToIntegerStep =>
             \E f \in {hist[Len(got')]} :
               \E ref \in {ExtractedByBitSetToBitSet(f, BvNot(f.value))} :
                 /\ got'[Len(got')].ret = ref.ret
                 /\ got'[Len(got')].value = IntegerAt(f.type, ref.dstMem)
                 /\ srcPtr' = ref.source /\ srcShift' = ref.sourceBitShift
                 /\ dstBuf' = dstBuf /\ dstPtr' = dstPtr /\ dstShift' = dstShift
      ]_vars

\* Two fields have been packed from variables and extracted into variables,
\* the second at a shift that is not 0 and into a signed type wider than it.
C15_Witness ==
    /\ Len(hist) >= 2 /\ Len(got) >= 2
    /\ hist[2].ret /\ got[2].ret
    /\ hist[2].type.signed /\ hist[2].size < hist[2].type.bits
    /\ got[2].position % 8 # 0
    /\ dstShift # 0 /\ srcShift # 0


\* The bytes of the destination buffer outside the span a call wrote are as
\* they were before the call.
OutsideSpanUnchanged ==
    \A a \in 0..(MemBytes - 1) :
        (a < last.destination \/ a >= last.destination + last.dstWritten) =>
            ReadByte(dstBuf, a) = ReadByte(last.preDstBuf, a)

(***************************************************************************)
(* C16: every call that returns true reads exactly the first               *)
(* ceil((shift + size) / 8) bytes at the normalised source, reads and      *)
(* writes exactly the first ceil((shift + size) / 8) bytes at the          *)
(* normalised destination, never more than 16 bytes of either buffer, and  *)
(* leaves every other destination byte as it was; with both ends at most 8 *)
(* that is 1 byte of each buffer, whatever the storage unit.               *)
(***************************************************************************)
C16_MinimalByteSpan ==
    MayHaveReturnedTrue =>
        /\ Defined
        /\ last.srcRead = (SourceBitEnd + 7) \div 8
        /\ last.dstRead = (DestinationBitEnd + 7) \div 8
        /\ last.dstWritten = (DestinationBitEnd + 7) \div 8
        /\ last.srcRead <= 16 /\ last.dstRead <= 16
        /\ OutsideSpanUnchanged
        /\ (SourceBitEnd <= 8 /\ DestinationBitEnd <= 8) =>
               last.srcRead = 1 /\ last.dstWritten = 1


\* A call that squeezes a negative signed source into a smaller signed
\* destination.
NegativeNarrowing ==
    /\ InContract /\ last.ret
    /\ last.sourceIsSigned /\ last.destinationIsSigned
    /\ last.destinationBitSize < last.sourceBitSize
    /\ SourceField[last.sourceBitSize] = 1

\* The mask test of BSToBS on the scratch value of the call: the source field
\* in the low bits of a value of the call's granularity.
MaskTestOfCall ==
    LET G == last.granularity
        t == UnitType(G)
    IN  NarrowingFits(t, Resized(SourceField, G, 0),
                      LogicalRightSafeShift(t, AllOnes(G), G - last.sourceBitSize),
                      LogicalRightSafeShift(t, AllOnes(G), G - last.destinationBitSize))

(***************************************************************************)
(* C17: for a negative signed source of s bits and a signed destination of *)
(* d < s bits, the mask test (scratch AND (sourceMask - (destinationMask   *)
(* >> 1))) = mask holds exactly when the source value v is at least        *)
(* -2^(d-1): bits d-1 .. s-1 of the source all set, and as numbers at the  *)
(* sizes of up to NumericBits bits.  When it fails the destination field   *)
(* is 100...0; when it holds the field is the low d bits of v, whose value *)
(* is v.                                                                   *)
(***************************************************************************)
C17_MaskTestIsBoundary ==
    NegativeNarrowing =>
        \E fits \in {MaskTestOfCall} :
            LET s == last.sourceBitSize
                d == last.destinationBitSize
            IN  /\ fits = AllBits(SourceField, d - 1, s - 1, 1)
                /\ s <= NumericBits => (fits = (SignedValue(SourceField) >= -(2 ^ (d - 1))))
                /\ DestinationField = IF fits THEN SubSeq(SourceField, 1, d) ELSE OneBit(d, d - 1)
                /\ (fits /\ s <= NumericBits) =>
                       SignedValue(DestinationField) = SignedValue(SourceField)

\* The 8-bit value -120 squeezed into 4 signed bits gives -8.
C17_Witness ==
    /\ NegativeNarrowing
    /\ last.sourceBitSize = 8 /\ last.destinationBitSize = 4
    /\ SignedValue(SourceField) = -120
    /\ ~MaskTestOfCall
    /\ SignedValue(DestinationField) = -8


(***************************************************************************)
(* C18: for every storage unit of U bits and every incoming shift s of     *)
(* 0..255, BitSetToBitSet advances the pointer by floor(s / U) units and   *)
(* replaces the shift by s mod U: the core routine gets a shift below U,   *)
(* the absolute bit addressed (8 x byte address + shift) is unchanged, and *)
(* a shift already below U leaves pointer and shift as they were.  The     *)
(* same holds for the source and for the destination.                      *)
(***************************************************************************)
C18_ShiftNormalisation ==
    CallDone =>
        /\ last.source = last.preSrcPtr + (last.preSrcShift \div unit) * (unit \div 8)
        /\ last.normSourceBitShift = last.preSrcShift % unit
        /\ last.destination = last.preDstPtr + (last.preDstShift \div unit) * (unit \div 8)
        /\ last.normDestinationBitShift = last.preDstShift % unit
        /\ last.normSourceBitShift < unit /\ last.normDestinationBitShift < unit
        /\ 8 * last.source + last.normSourceBitShift = 8 * last.preSrcPtr + last.preSrcShift
        /\ 8 * last.destination + last.normDestinationBitShift
               = 8 * last.preDstPtr + last.preDstShift
        /\ last.preSrcShift < unit =>
               last.source = last.preSrcPtr /\ last.normSourceBitShift = last.preSrcShift
        /\ last.preDstShift < unit =>
               last.destination = last.preDstPtr /\ last.normDestinationBitShift = last.preDstShift

\* A 32-bit unit, source shift 77: the pointer has moved 2 units on, the
\* shift is 13, and the field found there has arrived in the destination,
\* 5 units on at shift 18.
C18_Witness ==
    /\ ReturnedTrue
    /\ unit = 32 /\ last.preSrcShift = 77 /\ last.preDstShift = 178
    /\ last.source = last.preSrcPtr + 8 /\ last.normSourceBitShift = 13
    /\ last.destination = last.preDstPtr + 20 /\ last.normDestinationBitShift = 18
    /\ SourceField = <<1, 0, 1>> /\ DestinationField = <<1, 0, 1>>


(***************************************************************************)
(* C19: in every call, for every 8-bit value of the shifts and sizes,      *)
(* whenever the core routine runs at granularity G the byte counts it      *)
(* copies from the source, from the destination and to the destination are *)
(* each at most G / 8: no copy goes past the G-bit scratch value.          *)
(***************************************************************************)
C19_NoScratchOverrun ==
    (CallDone /\ last.granularity # 0) =>
        /\ ~last.overrun
        /\ Defined
        /\ 8 * last.srcRead <= last.granularity
        /\ 8 * last.dstRead <= last.granularity
        /\ 8 * last.dstWritten <= last.granularity


(***************************************************************************)
(* C21: on every native type, for every value x and every shift s of       *)
(* 0..255, the result of LogicalLeftSafeShift is the result of             *)
(* MathematicLeftSafeShift and the other way round: the low width bits of  *)
(* x * 2^s when s is below the width (bit i of the result is bit i - s of  *)
(* x, or 0; as numbers at the widths of up to NumericBits bits), and 0     *)
(* otherwise.                                                              *)
(***************************************************************************)
C21_LeftShiftsAgree ==
    (sh.op \in {"LogicalLeftSafeShift", "MathematicLeftSafeShift"} /\ ~sh.type.double) =>
        LET w == sh.type.bits
            s == sh.shift
        IN  /\ sh.out = LogicalLeftSafeShift(sh.type, sh.number, s)
            /\ sh.out = MathematicLeftSafeShift(sh.type, sh.number, s)
            /\ \A i \in 1..w :
                   sh.out[i] = IF s < w /\ i > s THEN sh.number[i - s] ELSE 0
            /\ (w <= NumericBits /\ s < w) =>
                   UnsignedValue(sh.out) = (UnsignedValue(sh.number) * 2 ^ s) % 2 ^ w

\* The mathematical left shift of the int8 -127 (1000 0001) by 3 is 8: the
\* sign bit is shifted out as any other bit.
C21_Witness ==
    /\ sh.op = "MathematicLeftSafeShift"
    /\ sh.type = [bits |-> 8, signed |-> TRUE, double |-> FALSE]
    /\ SignedValue(sh.number) = -127
    /\ sh.shift = 3
    /\ SignedValue(sh.out) = 8
    /\ sh.out = LogicalLeftSafeShift(sh.type, sh.number, sh.shift)


(***************************************************************************)
(* A BitSetToBitSet call that returned true, made once more: the same      *)
(* source buffer, sizes and signedness, the cursors put back to where they *)
(* were before the first call, the destination buffer as the first call    *)
(* left it.  hist holds the destination buffer between the two calls.      *)
(***************************************************************************)
BitSetToBitSetRepeat ==
    /\ last.op = "BitSetToBitSet"
    /\ MayHaveReturnedTrue
    /\ hist = <<>>
    /\ \E out \in {BitSetToBitSet(unit, dstBuf, last.preDstPtr, last.preDstShift,
                                  last.destinationBitSize, last.destinationIsSigned,
                                  srcBuf, last.preSrcPtr, last.preSrcShift,
                                  last.sourceBitSize, last.sourceIsSigned,
                                  <<TRUE, TRUE, TRUE>>)} :
         /\ dstBuf' = out.dstMem
         /\ srcBuf' = AfterCall(out, srcBuf)
         /\ dstPtr' = AfterCall(out, out.destination)
         /\ dstShift' = out.destinationBitShift
         /\ srcPtr' = AfterCall(out, out.source)
         /\ srcShift' = out.sourceBitShift
         /\ hist' = <<[dstBuf |-> dstBuf, ret |-> out.ret, undefined |-> out.undefined,
                       dstPtr |-> dstPtr, dstShift |-> dstShift,
                       srcPtr |-> srcPtr, srcShift |-> srcShift]>>
    /\ UNCHANGED <<threads, accesses, sh, unit, req, last, got>>

NextRepeat == BitSetToBitSetCall \/ BitSetToBitSetRepeat

SpecRepeat == Init /\ [][NextRepeat]_vars

Repeated == MayHaveReturnedTrue /\ Len(hist) = 1

(***************************************************************************)
(* C22: a BitSetToBitSet call that returned true, repeated with the same   *)
(* source bytes, sizes and signedness and with the cursors put back,       *)
(* returns true again and leaves every byte of the destination buffer, and *)
(* the cursors, as the first call left them.                               *)
(***************************************************************************)
C22_Idempotent ==
    Repeated =>
        /\ Defined /\ ~hist[1].undefined
        /\ hist[1].ret
        /\ dstBuf = hist[1].dstBuf
        /\ dstPtr = hist[1].dstPtr /\ dstShift = hist[1].dstShift
        /\ srcPtr = hist[1].srcPtr /\ srcShift = hist[1].srcShift


(***************************************************************************)
(* Calls whose source and destination lie in one memory.  dstBuf is the    *)
(* memory and srcBuf is the same memory: both pointers are byte addresses  *)
(* in it, so a call can write what it reads from.  The variable of an      *)
(* adapter lies in the memory as well, at the address of the cursor it     *)
(* stands for.  last holds the memory before the call and the two byte     *)
(* spans of the call.                                                      *)
(***************************************************************************)
\* <<sourceBitSize, destinationBitSize>> of the calls; the last one is held
\* by no granularity at a destination shift that is not 0.
SharedSizes == {<<8, 8>>, <<3, 5>>, <<64, 7>>, <<100, 127>>, <<128, 128>>}

SharedTypes == {[bits |-> 8, signed |-> TRUE, double |-> FALSE],
                [bits |-> 16, signed |-> FALSE, double |-> FALSE],
                [bits |-> 64, signed |-> TRUE, double |-> FALSE]}

InitShared ==
    /\ unit \in Units
    /\ dstBuf = MixedBuffer
    /\ srcBuf = dstBuf
    /\ srcPtr \in {0, 16}
    /\ dstPtr \in {0, 16, 32}
    /\ srcShift \in {0, 3, unit + 1}
    /\ dstShift \in {0, 5, unit + unit \div 2}
    /\ \E sizes \in SharedSizes, signed \in BOOLEAN :
         \/ req = [op |-> "BitSetToBitSet", type |-> UnitType(unit),
                   destinationBitSize |-> sizes[2], destinationIsSigned |-> signed,
                   sourceBitSize |-> sizes[1], sourceIsSigned |-> signed]
         \/ \E t2 \in SharedTypes, op \in {"IntegerToBitSet", "BitSetToInteger"} :
              /\ op = "IntegerToBitSet" => srcShift = 0
              /\ op = "BitSetToInteger" => dstShift = 0
              /\ req = [op |-> op, type |-> t2,
                        destinationBitSize |-> sizes[2], destinationIsSigned |-> signed,
                        sourceBitSize |-> sizes[1], sourceIsSigned |-> signed]
    /\ CodecIdle

\* The bytes a call of BSToBS copies for a field of size bits at shift.
SpanBytes(shift, size) == (shift + size + 7) \div 8

SharedRecord(op, out, sourceFirst, sourceBytes, destinationFirst, destinationBytes) ==
    [op |-> op, ret |-> out.ret, granularity |-> out.granularity, preMem |-> dstBuf,
     sourceFirst |-> sourceFirst, sourceBytes |-> sourceBytes,
     destinationFirst |-> destinationFirst, destinationBytes |-> destinationBytes]

BitSetToBitSetShared ==
    /\ req.op = "BitSetToBitSet"
    /\ \E out \in {BitSetToBitSet(unit, dstBuf, dstPtr, dstShift, req.destinationBitSize,
                                  req.destinationIsSigned, dstBuf, srcPtr, srcShift,
                                  req.sourceBitSize, req.sourceIsSigned,
                                  <<TRUE, TRUE, TRUE>>)} :
         /\ dstBuf' = out.dstMem
         /\ srcBuf' = out.dstMem
         /\ dstPtr' = out.destination
         /\ dstShift' = out.destinationBitShift
         /\ srcPtr' = out.source
         /\ srcShift' = out.sourceBitShift
         /\ last' = SharedRecord("shared BitSetToBitSet", out,
                        out.source, SpanBytes(out.normSourceBitShift, req.sourceBitSize),
                        out.destination,
                        SpanBytes(out.normDestinationBitShift, req.destinationBitSize))
    /\ req' = NoCall
    /\ UNCHANGED <<threads, accesses, sh, unit, hist, got>>

\* IntegerToBitSet from the variable src of type req.type that lies at srcPtr.
IntegerToBitSetShared ==
    /\ req.op = "IntegerToBitSet"
    /\ \E src \in {CopyIn(req.type.bits, dstBuf, srcPtr, req.type.bits \div 8)} :
         \E out \in {IntegerToBitSet(unit, dstBuf, dstPtr, dstShift, req.destinationBitSize,
                                     req.destinationIsSigned, req.type, src,
                                     <<TRUE, TRUE, TRUE>>)} :
           /\ dstBuf' = out.dstMem
           /\ srcBuf' = out.dstMem
           /\ dstPtr' = out.destination
           /\ dstShift' = out.destinationBitShift
           /\ last' = SharedRecord("shared IntegerToBitSet", out,
                          srcPtr, req.type.bits \div 8,
                          out.destination,
                          SpanBytes(out.normDestinationBitShift, req.destinationBitSize))
    /\ req' = NoCall
    /\ UNCHANGED <<threads, accesses, sh, unit, srcPtr, srcShift, hist, got>>

\* BitSetToInteger into the variable dest of type req.type that lies at
\* dstPtr.
BitSetToIntegerShared ==
    /\ req.op = "BitSetToInteger"
    /\ \E dest \in {CopyIn(req.type.bits, dstBuf, dstPtr, req.type.bits \div 8)} :
         \E out \in {BitSetToInteger(unit, req.type, dest, dstBuf, srcPtr, srcShift,
                                     req.sourceBitSize, req.sourceIsSigned,
                                     <<TRUE, TRUE, TRUE>>)} :
           \E mem \in {CopyOut(dstBuf, dstPtr, IntegerAt(req.type, out.dstMem),
                               req.type.bits \div 8)} :
             /\ dstBuf' = mem
             /\ srcBuf' = mem
             /\ srcPtr' = out.source
             /\ srcShift' = out.sourceBitShift
             /\ last' = SharedRecord("shared BitSetToInteger", out,
                            out.source, SpanBytes(out.normSourceBitShift, req.sourceBitSize),
                            dstPtr, req.type.bits \div 8)
    /\ req' = NoCall
    /\ UNCHANGED <<threads, accesses, sh, unit, dstPtr, dstShift, hist, got>>

NextShared == BitSetToBitSetShared \/ IntegerToBitSetShared \/ BitSetToIntegerShared

SpecShared == InitShared /\ [][NextShared]_vars


SharedDone ==
    last.op \in {"shared BitSetToBitSet", "shared IntegerToBitSet", "shared BitSetToInteger"}

\* The bytes of the source, and of the destination, that the call is given:
\* the spans of the two fields at the normalised pointers, the bytes of the
\* variable for the side an adapter takes a variable for.
SourceSpan == last.sourceFirst .. (last.sourceFirst + last.sourceBytes - 1)

DestinationSpan == last.destinationFirst .. (last.destinationFirst + last.destinationBytes - 1)

UnchangedAt(a) == ReadByte(dstBuf, a) = ReadByte(last.preMem, a)

(***************************************************************************)
(* C23: when the source and destination byte spans of a call of            *)
(* BitSetToBitSet, BitSetToInteger or IntegerToBitSet do not overlap, the  *)
(* call leaves every byte of the source span (for IntegerToBitSet, of the  *)
(* variable src) as it was, as it does every other byte of the memory that *)
(* is not in the destination span, whether it returns true or false; a     *)
(* call that returns false changes no byte at all.                         *)
(***************************************************************************)
C23_SourceIsReadOnly ==
    (SharedDone /\ SourceSpan \cap DestinationSpan = {}) =>
        /\ \A a \in SourceSpan : UnchangedAt(a)
        /\ \A a \in 0..(MemBytes - 1) : a \notin DestinationSpan => UnchangedAt(a)
        /\ ~last.ret => dstBuf = last.preMem

\* IntegerToBitSet from a 64-bit variable at byte 16 into a field that ends
\* one byte below it: the field has changed, the variable has not.
C23_Witness ==
    /\ SharedDone /\ last.op = "shared IntegerToBitSet" /\ last.ret
    /\ SourceSpan = 16..23
    /\ DestinationSpan \cap SourceSpan = {} /\ 15 \in DestinationSpan
    /\ dstBuf # last.preMem
    /\ \A a \in SourceSpan : UnchangedAt(a)

====
